---- MODULE Spec2Model ----
(***************************************************************************)
(* Recommendation core of Irumoa-AI: the rule scorer, the TF-IDF text      *)
(* scorer and the hybrid combiner (recommendation/recommenders/hybrid.py), *)
(* the rule-only variant (recommendation/rule_based.py) and the data       *)
(* model (recommendation/models.py).                                       *)
(*                                                                         *)
(* Numbers.  Scores are Python floats; here a score is an integer number  *)
(* of 1/SCORE_UNIT points (40.0 points is 40 * SCORE_UNIT).  Dates are day *)
(* numbers; an Optional[date] is <<>> (None) or <<d>>.  Text is a sequence *)
(* of whitespace-separated words.                                          *)
(***************************************************************************)
EXTENDS Integers, Sequences, FiniteSets, TLC

VARIABLES
    today,          \* date.today(), the process clock
    user,           \* the User of the current request
    programs,       \* the caller's List[Program]
    limit,          \* recommend(limit=)
    include_closed, \* recommend(include_closed=)
    min_score,      \* recommend(min_score=)
    vectorizer,     \* HybridRecommender.vectorizer: the fitted TfidfVectorizer
    last,           \* the operation that returned last
    result,         \* the List[RecommendationResult] recommend returned
    tfidf_scores,   \* the tfidf_scores batch of that recommend call
    tfidf_calls,    \* how often the last operation ran calculate_tfidf_score
    explanation,    \* the dict explain_score returned
    score_ret,      \* the (score, reasons) calculate_score returned
    bool_ret,       \* the bool a method of Program returned
    memo,           \* an earlier recommend call: its arguments, day and result
    requests,       \* the API requests in flight: input, position, response
    stored,         \* the program table with each row's category, department
                    \* and grade rows, as the crawler and the scripts see it
    dedup           \* a run of scripts/deduplicate.py: mode, groups, position

vars == <<today, user, programs, limit, include_closed, min_score,
          vectorizer, last, result, tfidf_scores, tfidf_calls, explanation,
          score_ret, bool_ret, memo, requests,
         stored, dedup>>

-----------------------------------------------------------------------------
(* Bounds of the model *)

MaxDepts == 2       \* longest program.departments list
MaxGrades == 2      \* longest program.grades list
MaxRepeat == 1      \* how many entries a category list may repeat
MaxProgs == 2       \* longest candidate list
MaxDay == 2         \* last day the clock reaches

-----------------------------------------------------------------------------
(* Helpers on sequences *)

ToSet(s) == {s[i] : i \in 1..Len(s)}

In(x, s) == \E i \in 1..Len(s) : s[i] = x

Min(a, b) == IF a <= b THEN a ELSE b

SeqsUpTo(S, n) == UNION {[1..k -> S] : k \in 0..n}

(* The elements a..b of s that exist *)
Span(s, a, b) ==
    LET hi == Min(b, Len(s))
    IN  IF a > hi THEN <<>> ELSE [i \in 1..(hi - a + 1) |-> s[a + i - 1]]

(* The function f itself, held as a table so that each entry is computed once *)
Table(f) == f @@ <<>>

None == <<>>

Some(d) == <<d>>

-----------------------------------------------------------------------------
(* Fixed-point scale of the float scores *)

SCORE_UNIT == 10 * 100

(* HybridRecommender's weight table, in points *)
WEIGHT_DEPARTMENT_EXACT == 40
WEIGHT_DEPARTMENT_UNRESTRICTED == 20
WEIGHT_GRADE_EXACT == 30
WEIGHT_GRADE_UNRESTRICTED == 15
WEIGHT_INTEREST_PER_MATCH == 5
MAX_INTEREST_SCORE == 30

(* WEIGHT_RULE_BASED = 0.6 and WEIGHT_TF_IDF = 0.4, in tenths *)
WEIGHT_RULE_BASED == 6
WEIGHT_TF_IDF == 4
WEIGHT_SCALE == 10

(* RuleBasedRecommender's weight table, in points *)
RULE_WEIGHT_DEPARTMENT_EXACT == 40
RULE_WEIGHT_DEPARTMENT_UNRESTRICTED == 20
RULE_WEIGHT_GRADE_EXACT == 30
RULE_WEIGHT_GRADE_UNRESTRICTED == 15
RULE_WEIGHT_INTEREST_PER_MATCH == 10
BONUS_DEADLINE_NEAR == 10

(* is_deadline_near(days=7) *)
DEADLINE_DAYS == 7

(* The department sentinel, "제한없음" in the source *)
UNRESTRICTED == "unrestricted"

(* The closed category vocabulary: 공모전, 멘토링, 봉사, 취업, 탐방, 특강, 비교과 *)
CATEGORIES ==
    <<"contest", "mentoring", "volunteer", "career", "fieldtrip", "lecture",
      "extracurricular">>

-----------------------------------------------------------------------------
(* models.py *)

(* An is_application_open that closes the program on its last day already:
   C13 depends on the end date itself being open *)
is_application_open_before_end(p, day) ==
    IF p.app_start_date # None /\ p.app_start_date[1] > day THEN FALSE
    ELSE IF p.app_end_date # None /\ p.app_end_date[1] <= day THEN FALSE
    ELSE TRUE

(* Program.is_application_open *)
is_application_open(p, day) ==
    IF p.app_start_date # None /\ p.app_start_date[1] > day THEN FALSE
    ELSE IF p.app_end_date # None /\ p.app_end_date[1] < day THEN FALSE
    ELSE TRUE

(* A deadline check that leaves out the last day of the period: C18 depends
   on the 7th day counting *)
is_deadline_near_before_last_day(p, day) ==
    IF p.app_end_date = None THEN FALSE
    ELSE LET days_remaining == p.app_end_date[1] - day
         IN  0 <= days_remaining /\ days_remaining < DEADLINE_DAYS

(* Program.is_deadline_near *)
is_deadline_near(p, day) ==
    IF p.app_end_date = None THEN FALSE
    ELSE LET days_remaining == p.app_end_date[1] - day
         IN  0 <= days_remaining /\ days_remaining <= DEADLINE_DAYS

(* RecommendationResult(program=, score=[, reasons=]): the model declares the
   fields program and score only, and pydantic ignores any other keyword. *)
RecommendationResult(program, score, reasons) ==
    [program |-> program, score |-> score]

-----------------------------------------------------------------------------
(* A reason string.  kind is the fixed text, names the interpolated names
   (the interest reason joins a Python set, whose order is unspecified), days
   the interpolated number.  An empty kind is the empty string. *)

Reason(kind, names, days) == [kind |-> kind, names |-> names, days |-> days]

NoReason == Reason("", {}, 0)

(* _get_grade_name: 제한없음, 1학년 .. 5학년, 졸업생, 대학원생 *)
get_grade_name(grade) ==
    CASE grade = 0 -> "unrestricted"
      [] grade = 1 -> "year1"
      [] grade = 2 -> "year2"
      [] grade = 3 -> "year3"
      [] grade = 4 -> "year4"
      [] grade = 5 -> "year5"
      [] grade = 6 -> "alumnus"
      [] grade = 7 -> "graduate"
      [] OTHER -> "year"

-----------------------------------------------------------------------------
(* hybrid.py: the rule scorer of HybridRecommender *)

(* A department scorer that tests the sentinel before the exact match: C7
   depends on the exact match being tested first *)
Hybrid_calculate_department_score_open_first(u, p) ==
    IF p.departments = <<>> THEN [score |-> 0, reason |-> NoReason]
    ELSE IF In(UNRESTRICTED, p.departments)
    THEN [score |-> WEIGHT_DEPARTMENT_UNRESTRICTED * SCORE_UNIT,
          reason |-> Reason("department_unrestricted", {}, 0)]
    ELSE IF In(u.department, p.departments)
    THEN [score |-> WEIGHT_DEPARTMENT_EXACT * SCORE_UNIT,
          reason |-> Reason("department_match", {u.department}, 0)]
    ELSE [score |-> 0, reason |-> NoReason]

(* A department term that is 0 for a user without a department: C23 depends
   on the sentinel test not looking at the user *)
Hybrid_calculate_department_score_none_for_empty(u, p) ==
    IF p.departments = <<>> \/ u.department = "" THEN [score |-> 0, reason |-> NoReason]
    ELSE IF In(u.department, p.departments)
    THEN [score |-> WEIGHT_DEPARTMENT_EXACT * SCORE_UNIT,
          reason |-> Reason("department_match", {u.department}, 0)]
    ELSE IF In(UNRESTRICTED, p.departments)
    THEN [score |-> WEIGHT_DEPARTMENT_UNRESTRICTED * SCORE_UNIT,
          reason |-> Reason("department_unrestricted", {}, 0)]
    ELSE [score |-> 0, reason |-> NoReason]

Hybrid_calculate_department_score(u, p) ==
    IF p.departments = <<>> THEN [score |-> 0, reason |-> NoReason]
    ELSE IF In(u.department, p.departments)
    THEN [score |-> WEIGHT_DEPARTMENT_EXACT * SCORE_UNIT,
          reason |-> Reason("department_match", {u.department}, 0)]
    ELSE IF In(UNRESTRICTED, p.departments)
    THEN [score |-> WEIGHT_DEPARTMENT_UNRESTRICTED * SCORE_UNIT,
          reason |-> Reason("department_unrestricted", {}, 0)]
    ELSE [score |-> 0, reason |-> NoReason]

Hybrid_calculate_grade_score(u, p) ==
    IF p.grades = <<>> THEN [score |-> 0, reason |-> NoReason]
    ELSE IF In(u.grade, p.grades)
    THEN [score |-> WEIGHT_GRADE_EXACT * SCORE_UNIT,
          reason |-> Reason("grade_match", {get_grade_name(u.grade)}, 0)]
    ELSE IF In(0, p.grades)
    THEN [score |-> WEIGHT_GRADE_UNRESTRICTED * SCORE_UNIT,
          reason |-> Reason("grade_unrestricted", {}, 0)]
    ELSE [score |-> 0, reason |-> NoReason]

(* An interest scorer that counts every entry of user.interests found in the
   categories, a repeated one each time: C9 depends on the set intersection *)
Hybrid_calculate_interest_score_per_entry(u, p) ==
    LET matching == SelectSeq(u.interests, LAMBDA c : In(c, p.categories))
    IN  IF matching = <<>> THEN [score |-> 0, reasons |-> <<>>]
        ELSE [score |-> Min(Len(matching) * WEIGHT_INTEREST_PER_MATCH * SCORE_UNIT,
                            MAX_INTEREST_SCORE * SCORE_UNIT),
              reasons |-> <<Reason("interest_match", ToSet(matching), 0)>>]

Hybrid_calculate_interest_score(u, p) ==
    IF u.interests = <<>> \/ p.categories = <<>>
    THEN [score |-> 0, reasons |-> <<>>]
    ELSE LET matching_categories == ToSet(u.interests) \cap ToSet(p.categories)
         IN  IF matching_categories = {} THEN [score |-> 0, reasons |-> <<>>]
             ELSE [score |-> Min(Cardinality(matching_categories)
                                   * WEIGHT_INTEREST_PER_MATCH * SCORE_UNIT,
                                 MAX_INTEREST_SCORE * SCORE_UNIT),
                   reasons |-> <<Reason("interest_match", matching_categories, 0)>>]

(* A rule score that also counts a free-text interest field naming one of the
   program's categories: C22 depends on the rule path reading interests only *)
Hybrid_calculate_score_reading_fields(u, p) ==
    LET dept == Hybrid_calculate_department_score(u, p)
        grade == Hybrid_calculate_grade_score(u, p)
        interest == Hybrid_calculate_interest_score(
                        [u EXCEPT !.interests = u.interests \o u.interest_fields], p)
    IN  [score |-> dept.score + grade.score + interest.score,
         reasons |-> (IF dept.reason.kind # "" THEN <<dept.reason>> ELSE <<>>)
                     \o (IF grade.reason.kind # "" THEN <<grade.reason>> ELSE <<>>)
                     \o interest.reasons]

(* HybridRecommender.calculate_score *)
Hybrid_calculate_score(u, p) ==
    LET dept == Hybrid_calculate_department_score(u, p)
        grade == Hybrid_calculate_grade_score(u, p)
        interest == Hybrid_calculate_interest_score(u, p)
    IN  [score |-> dept.score + grade.score + interest.score,
         reasons |-> (IF dept.reason.kind # "" THEN <<dept.reason>> ELSE <<>>)
                     \o (IF grade.reason.kind # "" THEN <<grade.reason>> ELSE <<>>)
                     \o interest.reasons]

-----------------------------------------------------------------------------
(* rule_based.py: RuleBasedRecommender *)

Rule_calculate_department_score(u, p) ==
    IF p.departments = <<>> THEN [score |-> 0, reason |-> NoReason]
    ELSE IF In(u.department, p.departments)
    THEN [score |-> RULE_WEIGHT_DEPARTMENT_EXACT * SCORE_UNIT,
          reason |-> Reason("department_match", {u.department}, 0)]
    ELSE IF In(UNRESTRICTED, p.departments)
    THEN [score |-> RULE_WEIGHT_DEPARTMENT_UNRESTRICTED * SCORE_UNIT,
          reason |-> Reason("department_unrestricted", {}, 0)]
    ELSE [score |-> 0, reason |-> NoReason]

(* A grade scorer that tests the sentinel 0 before the exact match: C8 depends
   on the exact match being tested first *)
Rule_calculate_grade_score_open_first(u, p) ==
    IF p.grades = <<>> THEN [score |-> 0, reason |-> NoReason]
    ELSE IF In(0, p.grades)
    THEN [score |-> RULE_WEIGHT_GRADE_UNRESTRICTED * SCORE_UNIT,
          reason |-> Reason("grade_unrestricted", {}, 0)]
    ELSE IF In(u.grade, p.grades)
    THEN [score |-> RULE_WEIGHT_GRADE_EXACT * SCORE_UNIT,
          reason |-> Reason("grade_match", {get_grade_name(u.grade)}, 0)]
    ELSE [score |-> 0, reason |-> NoReason]

Rule_calculate_grade_score(u, p) ==
    IF p.grades = <<>> THEN [score |-> 0, reason |-> NoReason]
    ELSE IF In(u.grade, p.grades)
    THEN [score |-> RULE_WEIGHT_GRADE_EXACT * SCORE_UNIT,
          reason |-> Reason("grade_match", {get_grade_name(u.grade)}, 0)]
    ELSE IF In(0, p.grades)
    THEN [score |-> RULE_WEIGHT_GRADE_UNRESTRICTED * SCORE_UNIT,
          reason |-> Reason("grade_unrestricted", {}, 0)]
    ELSE [score |-> 0, reason |-> NoReason]

Rule_calculate_interest_score(u, p) ==
    IF u.interests = <<>> \/ p.categories = <<>>
    THEN [score |-> 0, reasons |-> <<>>]
    ELSE LET matching_categories == ToSet(u.interests) \cap ToSet(p.categories)
         IN  IF matching_categories = {} THEN [score |-> 0, reasons |-> <<>>]
             ELSE [score |-> Cardinality(matching_categories)
                               * RULE_WEIGHT_INTEREST_PER_MATCH * SCORE_UNIT,
                   reasons |-> <<Reason("interest_match", matching_categories, 0)>>]

Rule_deadline_bonus(p, day) ==
    IF is_deadline_near(p, day)
    THEN [score |-> BONUS_DEADLINE_NEAR * SCORE_UNIT,
          reasons |-> <<Reason("deadline_near", {}, p.app_end_date[1] - day)>>]
    ELSE [score |-> 0, reasons |-> <<>>]

(* A rule-only score without the deadline bonus: C10 depends on the simple
   variant adding it *)
Rule_calculate_score_no_bonus(u, p, day) ==
    LET dept == Rule_calculate_department_score(u, p)
        grade == Rule_calculate_grade_score(u, p)
        interest == Rule_calculate_interest_score(u, p)
    IN  [score |-> dept.score + grade.score + interest.score,
         reasons |-> (IF dept.reason.kind # "" THEN <<dept.reason>> ELSE <<>>)
                     \o (IF grade.reason.kind # "" THEN <<grade.reason>> ELSE <<>>)
                     \o interest.reasons]

Rule_calculate_score(u, p, day) ==
    LET dept == Rule_calculate_department_score(u, p)
        grade == Rule_calculate_grade_score(u, p)
        interest == Rule_calculate_interest_score(u, p)
        deadline == Rule_deadline_bonus(p, day)
    IN  [score |-> dept.score + grade.score + interest.score + deadline.score,
         reasons |-> (IF dept.reason.kind # "" THEN <<dept.reason>> ELSE <<>>)
                     \o (IF grade.reason.kind # "" THEN <<grade.reason>> ELSE <<>>)
                     \o interest.reasons \o deadline.reasons]

-----------------------------------------------------------------------------
(* hybrid.py: the TF-IDF text scorer.

   A text is a sequence of raw words.  _preprocess_text lowercases, replaces
   every character outside [가-힣a-z0-9\s] by a space and collapses the
   whitespace; word by word that is the table below: "AI" becomes "ai", "c++"
   becomes "c", "!" disappears, a lowercase alphanumeric word is unchanged. *)

preprocess_word(w) ==
    CASE w = "AI" -> <<"ai">>
      [] w = "c++" -> <<"c">>
      [] w = "!" -> <<>>
      [] OTHER -> <<w>>

RECURSIVE preprocess_text(_)
preprocess_text(text) ==
    IF text = <<>> THEN <<>>
    ELSE preprocess_word(Head(text)) \o preprocess_text(Tail(text))

(* The words of one str field: the empty string has none *)
Words(str) == IF str = "" THEN <<>> ELSE <<str>>

(* _create_user_query: department, interests and interest_fields joined by
   spaces, preprocessed *)
create_user_query(u) ==
    preprocess_text(Words(u.department) \o u.interests \o u.interest_fields)

(* _create_program_text: title, content[:500], categories and departments
   joined by spaces, preprocessed.  Every content of the model is shorter than
   the 500 characters kept. *)
create_program_text(p) ==
    preprocess_text(p.title \o p.content \o p.categories \o p.departments)

(* TfidfVectorizer's analyzer: token_pattern (?u)\b\w\w+\b keeps the words of
   two or more characters; ngram_range=(1, 2) yields every token and every
   pair of adjacent tokens.  A term is the sequence of its tokens. *)
OneCharWords == {"c"}

Tokens(doc) == SelectSeq(doc, LAMBDA w : w \notin OneCharWords)

Terms(doc) ==
    LET toks == Tokens(doc)
    IN  {<<toks[i]>> : i \in 1..Len(toks)}
        \cup {<<toks[i], toks[i + 1]>> : i \in 1..(Len(toks) - 1)}

(* The count of a term in a token list *)
Tf(term, toks) ==
    LET n == Len(term)
    IN  Cardinality({i \in 1..(Len(toks) - n + 1) :
                        \A j \in 1..n : toks[i + j - 1] = term[j]})

(* Fixed-point natural logarithm: 100 * ln(k), rounded *)
IDF_UNIT == 10 * 10

Ln(k) ==
    CASE k = 1 -> 0
      [] k = 2 -> 69
      [] k = 3 -> 110
      [] k = 4 -> 139
      [] k = 5 -> 161
      [] k = 6 -> 179
      [] k = 7 -> 195
      [] k = 8 -> 208

(* TfidfTransformer(smooth_idf=True): idf = ln((1 + n) / (1 + df)) + 1 *)
Idf(n, df) == IDF_UNIT + Ln(1 + n) - Ln(1 + df)

(* The least r with r * r >= x *)
RECURSIVE SqrtSearch(_, _, _)
SqrtSearch(x, lo, hi) ==
    IF lo >= hi THEN lo
    ELSE LET mid == (lo + hi) \div 2
         IN  IF mid * mid >= x THEN SqrtSearch(x, lo, mid)
             ELSE SqrtSearch(x, mid + 1, hi)

Sqrt(x) == SqrtSearch(x, 0, Min(x, 46340))

(* The sum of f over the set S of its domain *)
RECURSIVE SumOver(_, _)
SumOver(f, S) ==
    IF S = {} THEN 0
    ELSE LET x == CHOOSE y \in S : TRUE
         IN  f[x] + SumOver(f, S \ {x})

(* The vectorizer before any fit *)
Unfitted == [fitted |-> FALSE, vocabulary |-> {}, idf |-> <<>>]

(* TfidfVectorizer.fit over a corpus: the vocabulary is every term of every
   document (max_features=1000 is never reached by the model's corpora) and
   each term's idf comes from its document frequency.  An empty vocabulary
   makes scikit-learn raise ValueError and leaves the fitted state as it was. *)
FitRaises(docs) == \A i \in 1..Len(docs) : Terms(docs[i]) = {}

Fit(docs) ==
    LET terms == Table([i \in 1..Len(docs) |-> Terms(docs[i])])
        vocabulary == UNION {terms[i] : i \in 1..Len(docs)}
        df(t) == Cardinality({i \in 1..Len(docs) : t \in terms[i]})
    IN  [fitted |-> TRUE,
         vocabulary |-> vocabulary,
         idf |-> Table([t \in vocabulary |-> Idf(Len(docs), df(t))])]

(* TfidfVectorizer.transform of one document: tf * idf per vocabulary term *)
TfidfRow(vec, doc) ==
    LET toks == Tokens(doc)
    IN  Table([t \in vec.vocabulary |-> Tf(t, toks) * vec.idf[t]])

(* The Euclidean norm of a row, rounded up *)
Norm(row) == Sqrt(SumOver([t \in DOMAIN row |-> row[t] * row[t]], DOMAIN row))

(* cosine_similarity of two rows of the given norms, scaled by 100 into score
   units; a zero row has similarity 0 *)
CosineScore(row_a, norm_a, row_b, norm_b) ==
    IF norm_a = 0 \/ norm_b = 0 THEN 0
    ELSE LET V == DOMAIN row_a
             dot == SumOver([t \in V |-> row_a[t] * row_b[t]], V)
         IN  (((dot * 100) \div norm_a) * SCORE_UNIT) \div norm_b

(* A vectorizer that is not fitted again while its vocabulary covers the
   corpus, so that the idf of an earlier call is used: C6 depends on every call
   fitting afresh *)
FitTransformScores_reuse(vec, all_texts) ==
    LET covered == vec.fitted /\
                      \A i \in 1..Len(all_texts) : Terms(all_texts[i]) \subseteq vec.vocabulary
        fitted == IF covered THEN vec ELSE Fit(all_texts)
        rows == Table([i \in 1..Len(all_texts) |-> TfidfRow(fitted, all_texts[i])])
        norms == Table([i \in 1..Len(all_texts) |-> Norm(rows[i])])
    IN  [vectorizer |-> fitted,
         scores |-> Table([i \in 1..(Len(all_texts) - 1) |->
                        CosineScore(rows[1], norms[1], rows[i + 1], norms[i + 1])])]

(* The rows of the corpus under the fitted state vec, and cosine_similarity of
   the first row against the others *)
TransformScores(vec, all_texts) ==
    LET rows == Table([i \in 1..Len(all_texts) |-> TfidfRow(vec, all_texts[i])])
        norms == Table([i \in 1..Len(all_texts) |-> Norm(rows[i])])
    IN  Table([i \in 1..(Len(all_texts) - 1) |->
                  CosineScore(rows[1], norms[1], rows[i + 1], norms[i + 1])])

(* fit_transform followed by cosine_similarity of the first row against the
   others *)
FitTransformScores(vec, all_texts) ==
    LET fitted == Fit(all_texts)
    IN  [vectorizer |-> fitted, scores |-> TransformScores(fitted, all_texts)]

(* A calculate_tfidf_score whose except branch returns the empty list: C14
   depends on the failure giving one zero per program *)
calculate_tfidf_score_empty_on_failure(vec, u, ps) ==
    IF ps = <<>> THEN [vectorizer |-> vec, scores |-> <<>>]
    ELSE LET user_query == create_user_query(u)
             program_texts == Table([i \in 1..Len(ps) |-> create_program_text(ps[i])])
             all_texts == <<user_query>> \o program_texts
         IN  IF FitRaises(all_texts)
             THEN [vectorizer |-> vec, scores |-> <<>>]
             ELSE FitTransformScores(vec, all_texts)

(* calculate_tfidf_score: the scores, one per program, and the vectorizer the
   call leaves behind *)
calculate_tfidf_score(vec, u, ps) ==
    IF ps = <<>> THEN [vectorizer |-> vec, scores |-> <<>>]
    ELSE LET user_query == create_user_query(u)
             program_texts == Table([i \in 1..Len(ps) |-> create_program_text(ps[i])])
             all_texts == <<user_query>> \o program_texts
         IN  IF FitRaises(all_texts)
             THEN [vectorizer |-> vec, scores |-> [i \in 1..Len(ps) |-> 0]]
             ELSE FitTransformScores(vec, all_texts)

-----------------------------------------------------------------------------
(* hybrid.py: the hybrid combiner *)

(* rule_score * 0.6 + tfidf_score * 0.4 *)
Combine(rule_score, tfidf_score) ==
    (rule_score * WEIGHT_RULE_BASED + tfidf_score * WEIGHT_TF_IDF) \div WEIGHT_SCALE

calculate_hybrid_score(u, p, tfidf_score) ==
    Combine(Hybrid_calculate_score(u, p).score, tfidf_score)

(* An insertion that puts an entry before the entries of equal score, as an
   unstable sort may: C2's tie order depends on the sort not doing this *)
RECURSIVE InsertDesc_before_ties(_, _)
InsertDesc_before_ties(sorted, r) ==
    IF sorted = <<>> THEN <<r>>
    ELSE IF Head(sorted).score > r.score
    THEN <<Head(sorted)>> \o InsertDesc_before_ties(Tail(sorted), r)
    ELSE <<r>> \o sorted

(* list.sort(key=lambda x: x.score, reverse=True): stable, so equal scores
   keep the order they had *)
RECURSIVE InsertDesc(_, _)
InsertDesc(sorted, r) ==
    IF sorted = <<>> THEN <<r>>
    ELSE IF Head(sorted).score >= r.score
    THEN <<Head(sorted)>> \o InsertDesc(Tail(sorted), r)
    ELSE <<r>> \o sorted

RECURSIVE SortDesc(_)
SortDesc(rs) ==
    IF rs = <<>> THEN <<>>
    ELSE InsertDesc(SortDesc(SubSeq(rs, 1, Len(rs) - 1)), rs[Len(rs)])

(* recommendations[-limit:], the last entries instead of the first: C4 depends
   on the slice taking the head of the sorted list *)
SlicePrefix_tail(rs, n) ==
    SubSeq(rs, Len(rs) - Min(n, Len(rs)) + 1, Len(rs))

(* recommendations[:limit] *)
SlicePrefix(rs, n) ==
    IF n >= 0 THEN SubSeq(rs, 1, Min(n, Len(rs)))
    ELSE SubSeq(rs, 1, IF Len(rs) + n > 0 THEN Len(rs) + n ELSE 0)

(* A filter that ignores include_closed and keeps every program: C1 depends on
   the filter dropping the closed ones *)
OpenFilter_keeps_all(ps, ic, day) == ps

(* The open/closed filter of recommend *)
OpenFilter(ps, ic, day) ==
    IF ~ic THEN SelectSeq(ps, LAMBDA p : is_application_open(p, day)) ELSE ps

(* A test that also drops a total equal to min_score: C3 depends on the
   comparison being strict *)
Hybrid_keeps_above(final_score, ms) == final_score > ms

(* The minimum-score test of the hybrid loop: TRUE when the program is kept *)
Hybrid_keeps(final_score, ms) == ~(final_score < ms)

(* A loop that pairs every program with the first text score of the batch: C11
   depends on the i-th program taking the i-th score *)
RECURSIVE Hybrid_loop_first_score(_, _, _, _)
Hybrid_loop_first_score(u, ps, scores, ms) ==
    IF ps = <<>> \/ scores = <<>> THEN <<>>
    ELSE LET final_score == calculate_hybrid_score(u, Head(ps), Head(scores))
             rest == Hybrid_loop_first_score(u, Tail(ps), scores, ms)
         IN  IF Hybrid_keeps(final_score, ms)
             THEN <<RecommendationResult(Head(ps), final_score, <<>>)>> \o rest
             ELSE rest

(* The scoring loop of HybridRecommender.recommend over the filtered list *)
RECURSIVE Hybrid_loop(_, _, _, _)
Hybrid_loop(u, ps, scores, ms) ==
    IF ps = <<>> \/ scores = <<>> THEN <<>>
    ELSE LET final_score == calculate_hybrid_score(u, Head(ps), Head(scores))
             rest == Hybrid_loop(u, Tail(ps), Tail(scores), ms)
         IN  IF Hybrid_keeps(final_score, ms)
             THEN <<RecommendationResult(Head(ps), final_score, <<>>)>> \o rest
             ELSE rest

(* A recommend without the short-circuit, which hands the empty list to
   calculate_tfidf_score: C12 depends on the early return *)
Hybrid_batch_always_scores(vec, u, ps, ic, day) ==
    LET filtered == OpenFilter(ps, ic, day)
        tfidf == calculate_tfidf_score(vec, u, filtered)
    IN  [vectorizer |-> tfidf.vectorizer, filtered |-> filtered,
         tfidf_scores |-> tfidf.scores, tfidf_calls |-> 1]

(* HybridRecommender.recommend up to the batch of text scores: the open/closed
   filter, the short-circuit on an empty list and calculate_tfidf_score *)
Hybrid_batch(vec, u, ps, ic, day) ==
    LET filtered == OpenFilter(ps, ic, day)
    IN  IF filtered = <<>>
        THEN [vectorizer |-> vec, filtered |-> <<>>, tfidf_scores |-> <<>>,
              tfidf_calls |-> 0]
        ELSE LET tfidf == calculate_tfidf_score(vec, u, filtered)
             IN  [vectorizer |-> tfidf.vectorizer, filtered |-> filtered,
                  tfidf_scores |-> tfidf.scores, tfidf_calls |-> 1]

(* HybridRecommender.recommend from the batch on: the scoring loop, the sort
   and the slice *)
Hybrid_rank(u, batch, lim, ms) ==
    IF batch.filtered = <<>> THEN <<>>
    ELSE SlicePrefix(SortDesc(Hybrid_loop(u, batch.filtered, batch.tfidf_scores, ms)), lim)

(* HybridRecommender.explain_score from the text score on: the rule terms, the
   weighted parts and the total *)
Hybrid_explain_value(u, p, tfidf_score) ==
    LET dept == Hybrid_calculate_department_score(u, p)
        grade == Hybrid_calculate_grade_score(u, p)
        interest == Hybrid_calculate_interest_score(u, p)
        rule_score == dept.score + grade.score + interest.score
    IN  [program |-> p.id,
         total_score |-> Combine(rule_score, tfidf_score),
         rule_score |-> rule_score,
         rule_weighted |-> (rule_score * WEIGHT_RULE_BASED) \div WEIGHT_SCALE,
         tfidf_score |-> tfidf_score,
         tfidf_weighted |-> (tfidf_score * WEIGHT_TF_IDF) \div WEIGHT_SCALE,
         department |-> dept.score,
         grade |-> grade.score,
         interests |-> interest.score,
         deadline |-> 0]

(* HybridRecommender.explain_score *)
Hybrid_explain_score(vec, u, p) ==
    LET tfidf == calculate_tfidf_score(vec, u, <<p>>)
        tfidf_score == IF tfidf.scores # <<>> THEN tfidf.scores[1] ELSE 0
    IN  [vectorizer |-> tfidf.vectorizer,
         tfidf_calls |-> 1,
         value |-> Hybrid_explain_value(u, p, tfidf_score)]

-----------------------------------------------------------------------------
(* rule_based.py: RuleBasedRecommender.recommend and explain_score *)

(* A test that also drops a score equal to min_score, as the docstring of
   recommend words it: C20 depends on the comparison in the loop *)
Rule_keeps_above(score, ms) == score > ms

(* The minimum-score test of the rule-only loop: TRUE when the program is kept *)
Rule_keeps(score, ms) == ~(score < ms)

RECURSIVE Rule_loop(_, _, _, _, _)
Rule_loop(u, ps, ic, ms, day) ==
    IF ps = <<>> THEN <<>>
    ELSE LET program == Head(ps)
             rest == Rule_loop(u, Tail(ps), ic, ms, day)
             scored == Rule_calculate_score(u, program, day)
         IN  IF ~ic /\ ~is_application_open(program, day) THEN rest
             ELSE IF ~Rule_keeps(scored.score, ms) THEN rest
             ELSE <<RecommendationResult(program, scored.score, scored.reasons)>> \o rest

Rule_recommend(u, ps, lim, ic, ms, day) ==
    SlicePrefix(SortDesc(Rule_loop(u, ps, ic, ms, day)), lim)

Rule_explain_score(u, p, day) ==
    LET dept == Rule_calculate_department_score(u, p)
        grade == Rule_calculate_grade_score(u, p)
        interest == Rule_calculate_interest_score(u, p)
        deadline == Rule_deadline_bonus(p, day)
    IN  [program |-> p.id,
         total_score |-> dept.score + grade.score + interest.score + deadline.score,
         rule_score |-> 0,
         rule_weighted |-> 0,
         tfidf_score |-> 0,
         tfidf_weighted |-> 0,
         department |-> dept.score,
         grade |-> grade.score,
         interests |-> interest.score,
         deadline |-> deadline.score]

-----------------------------------------------------------------------------
(* The state machine: the values before any call *)

NoResult == [by |-> "none", value |-> <<>>]

NoExplanation ==
    [program |-> 0, total_score |-> 0, rule_score |-> 0, rule_weighted |-> 0,
     tfidf_score |-> 0, tfidf_weighted |-> 0, department |-> 0, grade |-> 0,
     interests |-> 0, deadline |-> 0]

NoScore == [score |-> 0, reasons |-> <<>>]

(* No earlier call remembered *)
(* an empty program table *)
NoRows == <<>>

(* no run of the deduplication script *)
NoDedup == [pc |-> "none"]

(* no API request in flight *)
NoRequests == <<>>

NoMemo ==
    [valid |-> FALSE, others |-> FALSE, user |-> <<>>, programs |-> <<>>,
     limit |-> 0, include_closed |-> FALSE, min_score |-> 0, day |-> 0,
     value |-> <<>>]

(* Program(id=, title=, content=, categories=, departments=, grades=,
   app_start_date=, app_end_date=) *)
Program(id, text, categories, departments, grades, dates) ==
    [id |-> id, title |-> text.title, content |-> text.content,
     categories |-> categories, departments |-> departments, grades |-> grades,
     app_start_date |-> dates.app_start_date, app_end_date |-> dates.app_end_date]

(* User(department=, grade=, interests=, interest_fields=) *)
User(department, grade, interests, interest_fields) ==
    [department |-> department, grade |-> grade, interests |-> interests,
     interest_fields |-> interest_fields]

-----------------------------------------------------------------------------
(* Inputs of the recommend specification.  A candidate list holds up to
   MaxProgs programs with the ids 1, 2, ... in list order. *)

Texts ==
    {[title |-> <<"AI", "!">>, content |-> <<>>],
     [title |-> <<"ml">>, content |-> <<"c++", "ai">>]}

(* No window at all, and a window of the single day 1: not yet open on day 0,
   open on day 1, closed from day 2 on *)
Windows ==
    {[app_start_date |-> None, app_end_date |-> None],
     [app_start_date |-> Some(1), app_end_date |-> Some(1)]}

Days == 0..MaxDay

ProgramKinds ==
    {Program(0, t, <<"lecture">>, d, <<2>>, w) :
        t \in Texts, d \in {<<UNRESTRICTED>>, <<"ee">>}, w \in Windows}

CandidateLists ==
    {[i \in 1..Len(ks) |-> [ks[i] EXCEPT !.id = i]] : ks \in SeqsUpTo(ProgramKinds, MaxProgs)}

Users == {User("cs", 2, <<"contest">>, f) : f \in {<<"AI">>, <<"ml">>}}

Limits == 0..MaxProgs

MinScores == {20 * SCORE_UNIT, 30 * SCORE_UNIT}

Init ==
    /\ today \in Days
    /\ user \in Users
    /\ programs \in CandidateLists
    /\ limit = 0
    /\ include_closed = FALSE
    /\ min_score = 0
    /\ vectorizer = Unfitted
    /\ last = "none"
    /\ result = NoResult
    /\ tfidf_scores = <<>>
    /\ tfidf_calls = 0
    /\ explanation = NoExplanation
    /\ score_ret = NoScore
    /\ bool_ret = FALSE
    /\ memo = NoMemo
    /\ requests = NoRequests
    /\ stored = NoRows
    /\ dedup = NoDedup

Caller_programs_filtered_in_place(ps, filtered) == filtered

(* programs = [p for p in programs if p.is_application_open()] builds a new
   list and binds the local name to it: the list object the caller passed
   keeps its elements.  ps is the caller's list before the call, filtered the
   new list; the value is the caller's list after the call. *)
Caller_programs(ps, filtered) == ps

(* recommender.recommend(user, programs, limit, include_closed, min_score) on
   the HybridRecommender, with limit drawn from lims and min_score from mss *)
HybridRecommend(lims, mss) ==
    /\ last = "none"
    /\ \E ic \in BOOLEAN :
          \E batch \in {Hybrid_batch(vectorizer, user, programs, ic, today)} :
              \E lim \in lims, ms \in mss :
                 /\ limit' = lim
                 /\ include_closed' = ic
                 /\ min_score' = ms
                 /\ result' = [by |-> "hybrid", value |-> Hybrid_rank(user, batch, lim, ms)]
                 /\ tfidf_scores' = batch.tfidf_scores
                 /\ tfidf_calls' = batch.tfidf_calls
                 /\ vectorizer' = batch.vectorizer
                 /\ programs' = Caller_programs(programs, batch.filtered)
    /\ last' = "hybrid_recommend"
    /\ explanation' = NoExplanation
    /\ UNCHANGED <<stored, dedup, requests, bool_ret, today, user, score_ret, memo>>

(* recommender.recommend(...) on the RuleBasedRecommender *)
RuleRecommend(lims, mss) ==
    /\ last = "none"
    /\ \E lim \in lims, ic \in BOOLEAN, ms \in mss :
          /\ limit' = lim
          /\ include_closed' = ic
          /\ min_score' = ms
          /\ result' = [by |-> "rule",
                        value |-> Rule_recommend(user, programs, lim, ic, ms, today)]
    /\ tfidf_scores' = <<>>
    /\ tfidf_calls' = 0
    /\ last' = "rule_recommend"
    /\ explanation' = NoExplanation
    /\ UNCHANGED <<stored, dedup, requests, bool_ret, today, user, programs, vectorizer, score_ret, memo>>

(* recommender.explain_score(user, results[i].program), as test_user_1 calls it
   on a program recommend returned *)
HybridExplain(i) ==
    /\ result.by = "hybrid"
    /\ i \in 1..Len(result.value)
    /\ \E e \in {Hybrid_explain_score(vectorizer, user, result.value[i].program)} :
          /\ explanation' = e.value
          /\ vectorizer' = e.vectorizer
          /\ tfidf_calls' = e.tfidf_calls
    /\ last' = "hybrid_explain"
    /\ UNCHANGED <<stored, dedup, requests, bool_ret, today, user, programs, limit, include_closed, min_score,
                   result, tfidf_scores, score_ret, memo>>

Next ==
    \/ HybridRecommend(Limits, MinScores)
    \/ RuleRecommend(Limits, MinScores)
    \/ \E i \in 1..MaxProgs : HybridExplain(i)

Spec == Init /\ [][Next]_vars

-----------------------------------------------------------------------------
(* Inputs of the scoring specification: one user and one program.  Each of the
   three rule terms is exercised over its whole bounded domain while the other
   two range over a few values. *)

UserDepartments == {"cs", UNRESTRICTED, ""}

DepartmentNames == {"cs", "ee", UNRESTRICTED}

DepartmentPairs ==
    {<<d, ds>> : d \in UserDepartments, ds \in SeqsUpTo(DepartmentNames, MaxDepts)}

DepartmentPairsFew == {<<"cs", <<"cs">>>>, <<"cs", <<UNRESTRICTED>>>>}

GradeCodes == {0, 2, 7}

(* The scorers take any User object: the range of User.grade is enforced by the
   constructor only, and the sentinel 0 can be assigned to the field later *)
GradePairs == {<<g, gs>> : g \in 0..7, gs \in SeqsUpTo(GradeCodes, MaxGrades)}

GradePairsFew == {<<2, <<2>>>>, <<2, <<0>>>>}

(* The first k categories, then the first r of them again *)
InterestLists ==
    {Span(CATEGORIES, 1, k) \o Span(CATEGORIES, 1, r) :
        k \in 0..Len(CATEGORIES), r \in 0..MaxRepeat}
    \cup {<<"contest", "career">>}

(* The categories from the a-th on, then the first r of those again *)
CategoryLists ==
    {Span(CATEGORIES, a, Len(CATEGORIES)) \o Span(CATEGORIES, a, a + r - 1) :
        a \in 1..(Len(CATEGORIES) + 1), r \in 0..MaxRepeat}
    \cup {<<"contest">>}

InterestPairs == {<<is, cs>> : is \in InterestLists, cs \in CategoryLists}

InterestPairsFew ==
    {<<<<"contest", "career">>, <<"contest">>>>, <<<<"contest", "career">>, <<>>>>}

ScoreWindows ==
    {[app_start_date |-> None, app_end_date |-> None],
     [app_start_date |-> None, app_end_date |-> Some(1)]}

ScoreText == [title |-> <<"ai">>, content |-> <<>>]

ScoreInputs ==
    (DepartmentPairs \X GradePairsFew \X InterestPairsFew)
    \cup (DepartmentPairsFew \X GradePairs \X InterestPairsFew)
    \cup (DepartmentPairsFew \X GradePairsFew \X InterestPairs)

InitScore ==
    /\ today = 0
    /\ \E x \in ScoreInputs, w \in ScoreWindows :
          /\ user = User(x[1][1], x[2][1], x[3][1], <<"AI">>)
          /\ programs = <<Program(1, ScoreText, x[3][2], x[1][2], x[2][2], w)>>
    /\ limit = 0
    /\ include_closed = FALSE
    /\ min_score = 0
    /\ vectorizer = Unfitted
    /\ last = "none"
    /\ result = NoResult
    /\ tfidf_scores = <<>>
    /\ tfidf_calls = 0
    /\ explanation = NoExplanation
    /\ score_ret = NoScore
    /\ bool_ret = FALSE
    /\ memo = NoMemo
    /\ requests = NoRequests
    /\ stored = NoRows
    /\ dedup = NoDedup

(* recommender.calculate_score(user, program) on the HybridRecommender *)
HybridScore(i) ==
    /\ last = "none"
    /\ i \in 1..Len(programs)
    /\ score_ret' = Hybrid_calculate_score(user, programs[i])
    /\ last' = "hybrid_score"
    /\ tfidf_calls' = 0
    /\ UNCHANGED <<stored, dedup, requests, bool_ret, today, user, programs, limit, include_closed, min_score,
                   vectorizer, result, tfidf_scores, explanation, memo>>

(* recommender.calculate_score(user, program) on the RuleBasedRecommender *)
RuleScore(i) ==
    /\ last = "none"
    /\ i \in 1..Len(programs)
    /\ score_ret' = Rule_calculate_score(user, programs[i], today)
    /\ last' = "rule_score"
    /\ tfidf_calls' = 0
    /\ UNCHANGED <<stored, dedup, requests, bool_ret, today, user, programs, limit, include_closed, min_score,
                   vectorizer, result, tfidf_scores, explanation, memo>>

(* The /explain route: explain_score(user, program) for a stored program, on
   the HybridRecommender *)
HybridExplainProgram(i) ==
    /\ last = "none"
    /\ i \in 1..Len(programs)
    /\ \E e \in {Hybrid_explain_score(vectorizer, user, programs[i])} :
          /\ explanation' = e.value
          /\ vectorizer' = e.vectorizer
          /\ tfidf_calls' = e.tfidf_calls
    /\ last' = "hybrid_explain"
    /\ UNCHANGED <<stored, dedup, requests, bool_ret, today, user, programs, limit, include_closed, min_score,
                   result, tfidf_scores, score_ret, memo>>

(* explain_score(user, program) on the RuleBasedRecommender *)
RuleExplainProgram(i) ==
    /\ last = "none"
    /\ i \in 1..Len(programs)
    /\ explanation' = Rule_explain_score(user, programs[i], today)
    /\ last' = "rule_explain"
    /\ tfidf_calls' = 0
    /\ UNCHANGED <<stored, dedup, requests, bool_ret, today, user, programs, limit, include_closed, min_score,
                   vectorizer, result, tfidf_scores, score_ret, memo>>

(* recommender.recommend(user, programs, limit=1, include_closed=True,
   min_score=0) on the HybridRecommender *)
HybridRecommendProgram ==
    /\ last = "none"
    /\ \E batch \in {Hybrid_batch(vectorizer, user, programs, TRUE, today)} :
          /\ result' = [by |-> "hybrid", value |-> Hybrid_rank(user, batch, 1, 0)]
          /\ tfidf_scores' = batch.tfidf_scores
          /\ tfidf_calls' = batch.tfidf_calls
          /\ vectorizer' = batch.vectorizer
    /\ limit' = 1
    /\ include_closed' = TRUE
    /\ last' = "hybrid_recommend"
    /\ UNCHANGED <<stored, dedup, requests, bool_ret, today, user, programs, min_score, explanation,
                   score_ret, memo>>

(* recommender.recommend(user, programs, limit=1, include_closed=True,
   min_score=0) on the RuleBasedRecommender *)
RuleRecommendProgram ==
    /\ last = "none"
    /\ result' = [by |-> "rule",
                  value |-> Rule_recommend(user, programs, 1, TRUE, 0, today)]
    /\ limit' = 1
    /\ include_closed' = TRUE
    /\ tfidf_calls' = 0
    /\ last' = "rule_recommend"
    /\ UNCHANGED <<stored, dedup, requests, bool_ret, today, user, programs, min_score, vectorizer,
                   tfidf_scores, explanation, score_ret, memo>>

NextScore ==
    \/ \E i \in 1..MaxProgs : HybridScore(i)
    \/ \E i \in 1..MaxProgs : RuleScore(i)
    \/ \E i \in 1..MaxProgs : HybridExplainProgram(i)
    \/ \E i \in 1..MaxProgs : RuleExplainProgram(i)
    \/ HybridRecommendProgram
    \/ RuleRecommendProgram

SpecScore == InitScore /\ [][NextScore]_vars

-----------------------------------------------------------------------------
(* The specification of repeated calls: one HybridRecommender instance, as the
   module-level recommender of api/routes.py, serves recommend and explain
   calls with changing inputs while the days pass.  memo remembers one earlier
   recommend call, its arguments, the day it ran and what it returned; its
   field others tells whether other calls were served since. *)

CallProgramA ==
    Program(1, [title |-> <<"AI", "!">>, content |-> <<>>], <<"lecture">>,
            <<UNRESTRICTED>>, <<2>>,
            [app_start_date |-> None, app_end_date |-> None])

CallProgramB ==
    Program(2, [title |-> <<"ml">>, content |-> <<"c++", "ai">>], <<"lecture">>,
            <<"cs">>, <<2>>,
            [app_start_date |-> Some(1), app_end_date |-> Some(1)])

(* A program and a user without a single token of text *)
CallProgramE ==
    Program(3, [title |-> <<"!">>, content |-> <<>>], <<>>, <<>>, <<0>>,
            [app_start_date |-> None, app_end_date |-> None])

CallUser == User("cs", 2, <<"lecture">>, <<"AI">>)

CallUserE == User("", 2, <<>>, <<>>)

CallInputs ==
    {[user |-> CallUser, programs |-> <<CallProgramA>>],
     [user |-> CallUser, programs |-> <<CallProgramA, CallProgramB>>],
     [user |-> CallUserE, programs |-> <<CallProgramE>>]}

ExplainInputs ==
    {[user |-> CallUser, program |-> CallProgramA],
     [user |-> CallUser, program |-> CallProgramB],
     [user |-> CallUserE, program |-> CallProgramE]}

CallLimits == {1, 2}

CallMinScores == {0}

InitCalls ==
    /\ today = 0
    /\ user = CallUser
    /\ programs = <<>>
    /\ limit = 0
    /\ include_closed = FALSE
    /\ min_score = 0
    /\ vectorizer = Unfitted
    /\ last = "none"
    /\ result = NoResult
    /\ tfidf_scores = <<>>
    /\ tfidf_calls = 0
    /\ explanation = NoExplanation
    /\ score_ret = NoScore
    /\ bool_ret = FALSE
    /\ memo = NoMemo
    /\ requests = NoRequests
    /\ stored = NoRows
    /\ dedup = NoDedup

SameCall(m, u, ps, lim, ic, ms) ==
    /\ m.user = u
    /\ m.programs = ps
    /\ m.limit = lim
    /\ m.include_closed = ic
    /\ m.min_score = ms

(* recommender.recommend(user, programs, limit, include_closed, min_score) with
   fresh arguments; the call is remembered in memo or not *)
CallRecommend ==
    /\ \E x \in CallInputs, ic \in BOOLEAN :
          \E batch \in {Hybrid_batch(vectorizer, x.user, x.programs, ic, today)} :
              \E lim \in CallLimits, ms \in CallMinScores :
                 \E value \in {Hybrid_rank(x.user, batch, lim, ms)} :
                    /\ user' = x.user
                    /\ programs' = x.programs
                    /\ limit' = lim
                    /\ include_closed' = ic
                    /\ min_score' = ms
                    /\ result' = [by |-> "hybrid", value |-> value]
                    /\ tfidf_scores' = batch.tfidf_scores
                    /\ tfidf_calls' = batch.tfidf_calls
                    /\ vectorizer' = batch.vectorizer
                    /\ \/ memo' = [valid |-> TRUE, others |-> FALSE, user |-> x.user,
                                   programs |-> x.programs, limit |-> lim,
                                   include_closed |-> ic, min_score |-> ms,
                                   day |-> today, value |-> value]
                       \/ /\ memo.valid
                          /\ memo' = [memo EXCEPT !.others =
                                         @ \/ ~SameCall(memo, x.user, x.programs, lim, ic, ms)]
    /\ last' = "hybrid_recommend"
    /\ explanation' = NoExplanation
    /\ UNCHANGED <<stored, dedup, requests, bool_ret, today, score_ret>>

(* recommender.explain_score(user, program) with fresh arguments *)
CallExplain ==
    /\ \E x \in ExplainInputs :
          \E e \in {Hybrid_explain_score(vectorizer, x.user, x.program)} :
             /\ explanation' = e.value
             /\ vectorizer' = e.vectorizer
             /\ tfidf_calls' = e.tfidf_calls
    /\ memo' = [memo EXCEPT !.others = memo.valid]
    /\ last' = "hybrid_explain"
    /\ UNCHANGED <<stored, dedup, requests, bool_ret, today, user, programs, limit, include_closed, min_score,
                   result, tfidf_scores, score_ret>>

(* Midnight: date.today() moves on *)
Tick ==
    /\ today < MaxDay
    /\ today' = today + 1
    /\ last' = "tick"
    /\ UNCHANGED <<stored, dedup, requests, bool_ret, user, programs, limit, include_closed, min_score, vectorizer,
                   result, tfidf_scores, tfidf_calls, explanation, score_ret, memo>>

(* The lists calculate_tfidf_score is called on directly: those of the
   recommend calls and the empty list *)
TfidfInputs == CallInputs \cup {[user |-> CallUser, programs |-> <<>>]}

(* recommender.calculate_tfidf_score(user, programs) with fresh arguments *)
CallTfidfScore ==
    /\ \E x \in TfidfInputs :
          \E tfidf \in {calculate_tfidf_score(vectorizer, x.user, x.programs)} :
             /\ user' = x.user
             /\ programs' = x.programs
             /\ tfidf_scores' = tfidf.scores
             /\ vectorizer' = tfidf.vectorizer
    /\ tfidf_calls' = 1
    /\ limit' = 0
    /\ include_closed' = FALSE
    /\ min_score' = 0
    /\ result' = NoResult
    /\ explanation' = NoExplanation
    /\ memo' = [memo EXCEPT !.others = memo.valid]
    /\ last' = "tfidf_score"
    /\ UNCHANGED <<stored, dedup, requests, bool_ret, today, score_ret>>

NextCalls == CallRecommend \/ CallExplain \/ CallTfidfScore \/ Tick

SpecCalls == InitCalls /\ [][NextCalls]_vars

-----------------------------------------------------------------------------
(* Properties of recommend, checked under Spec *)

(* The derived open state of the data model: open iff (start absent or
   start <= today) and (end absent or end >= today) *)
DerivedOpen(p, day) ==
    /\ (p.app_start_date = None \/ p.app_start_date[1] <= day)
    /\ (p.app_end_date = None \/ p.app_end_date[1] >= day)

(* The position of a returned program in the caller's list *)
PositionOf(p) == CHOOSE k \in 1..Len(programs) : programs[k].id = p.id

Returned(p) == \E i \in 1..Len(result.value) : result.value[i].program = p

(* The candidates the last call had to rank, in list order, each with its
   total: for the hybrid variant 0.6 of its rule score plus 0.4 of its entry of
   the call's tfidf_scores, for the rule-only variant its rule score *)
Candidates ==
    LET cands == IF include_closed THEN programs
                 ELSE SelectSeq(programs, LAMBDA p : DerivedOpen(p, today))
    IN  [k \in 1..Len(cands) |->
            [program |-> cands[k],
             total |-> IF result.by = "hybrid"
                       THEN Combine(Hybrid_calculate_score(user, cands[k]).score,
                                    tfidf_scores[k])
                       ELSE Rule_calculate_score(user, cands[k], today).score]]

(* The candidates whose total reaches min_score *)
Survivors == SelectSeq(Candidates, LAMBDA c : c.total >= min_score)

(* C1: with include_closed false, neither recommender returns a program whose
   derived open state is false on the day of the call *)
C1_ClosedNeverReturned ==
    (result.by # "none" /\ ~include_closed)
        => \A i \in 1..Len(result.value) : DerivedOpen(result.value[i].program, today)

(* A hybrid call with include_closed false that returned something while the
   list held a closed program whose rule part alone reaches min_score *)
C1_Witness ==
    /\ result.by = "hybrid"
    /\ ~include_closed
    /\ result.value # <<>>
    /\ \E i \in 1..Len(programs) :
          /\ ~DerivedOpen(programs[i], today)
          /\ Combine(Hybrid_calculate_score(user, programs[i]).score, 0) >= min_score

(* C2: the returned list is in descending score order and two returned programs
   of equal score are in the order of the caller's list *)
C2_SortedStable ==
    result.by # "none"
        => \A i, j \in 1..Len(result.value) :
              i < j =>
                 \/ result.value[i].score > result.value[j].score
                 \/ /\ result.value[i].score = result.value[j].score
                    /\ PositionOf(result.value[i].program)
                          < PositionOf(result.value[j].program)

(* Two programs returned with the same score *)
C2_Witness ==
    /\ result.by = "hybrid"
    /\ Len(result.value) = 2
    /\ result.value[1].score = result.value[2].score

(* C3: every hybrid result has score >= min_score, a candidate below min_score
   is never returned, and when the limit did not cut the list every candidate
   at or above min_score is returned with its total *)
C3_MinScore ==
    result.by = "hybrid"
        => LET cands == Candidates
           IN  /\ \A i \in 1..Len(result.value) : result.value[i].score >= min_score
               /\ \A k \in 1..Len(cands) :
                     cands[k].total < min_score => ~Returned(cands[k].program)
               /\ Len(result.value) < limit
                     => \A k \in 1..Len(cands) :
                           cands[k].total >= min_score
                              => \E i \in 1..Len(result.value) :
                                    /\ result.value[i].program = cands[k].program
                                    /\ result.value[i].score = cands[k].total

(* A hybrid result whose score equals min_score, beside a dropped candidate *)
C3_Witness ==
    /\ result.by = "hybrid"
    /\ \E i \in 1..Len(result.value) : result.value[i].score = min_score
    /\ LET cands == Candidates
       IN  \E k \in 1..Len(cands) : cands[k].total < min_score

(* C4: for a non-negative limit the list returned has min(limit, n) entries,
   each a surviving candidate, and every omitted survivor ranks after every
   returned one (lower score, or equal score and later in the list) *)
C4_FirstLimit ==
    (result.by # "none" /\ limit >= 0)
        => LET surv == Survivors
           IN  /\ Len(result.value) = Min(limit, Len(surv))
               /\ \A i \in 1..Len(result.value) :
                     \E k \in 1..Len(surv) :
                        /\ surv[k].program = result.value[i].program
                        /\ surv[k].total = result.value[i].score
               /\ \A k \in 1..Len(surv) :
                     ~Returned(surv[k].program)
                        => \A i \in 1..Len(result.value) :
                              \/ result.value[i].score > surv[k].total
                              \/ /\ result.value[i].score = surv[k].total
                                 /\ PositionOf(result.value[i].program)
                                       < PositionOf(surv[k].program)

(* A hybrid call whose limit cut a survivor of strictly lower score *)
C4_Witness ==
    /\ result.by = "hybrid"
    /\ limit >= 1
    /\ LET surv == Survivors
       IN  /\ Len(surv) > limit
           /\ \E k \in 1..Len(surv) :
                 /\ ~Returned(surv[k].program)
                 /\ surv[k].total < result.value[Len(result.value)].score

(* C5: explain_score's total_score for a program recommend returned equals the
   score recommend gave it, whatever else was in the candidate list *)
C5_ExplainEqualsRecommend ==
    last = "hybrid_explain"
        => \A i \in 1..Len(result.value) :
              result.value[i].program.id = explanation.program
                 => explanation.total_score = result.value[i].score

(* C6 as stated: a recommend call with the arguments of a remembered call
   returns what the remembered call returned *)
C6_SameArgumentsSameOutput ==
    (last = "hybrid_recommend" /\ memo.valid
        /\ SameCall(memo, user, programs, limit, include_closed, min_score))
        => result.value = memo.value

(* C6: a recommend call with the arguments of a remembered call, made on the
   day the remembered call was made, returns what the remembered call
   returned, whatever calls the instance served in between *)
C6_SameArgumentsSameDaySameOutput ==
    (last = "hybrid_recommend" /\ memo.valid /\ memo.day = today
        /\ SameCall(memo, user, programs, limit, include_closed, min_score))
        => result.value = memo.value

(* A call repeated on the same day after other calls were served, returning a
   program with a text score, by a vectorizer that had been fitted before *)
C6_Witness ==
    /\ last = "hybrid_recommend"
    /\ memo.valid
    /\ memo.others
    /\ memo.day = today
    /\ SameCall(memo, user, programs, limit, include_closed, min_score)
    /\ result.value # <<>>
    /\ \E k \in 1..Len(tfidf_scores) : tfidf_scores[k] > 0

-----------------------------------------------------------------------------
(* Properties of the scoring specification SpecScore, whose single program is
   programs[1] *)

(* The department term as documented: 40 for an exact match, else 20 for the
   sentinel, else 0 *)
DocumentedDepartmentTerm(u, p) ==
    IF \E k \in 1..Len(p.departments) : p.departments[k] = u.department
    THEN 40 * SCORE_UNIT
    ELSE IF \E k \in 1..Len(p.departments) : p.departments[k] = UNRESTRICTED
    THEN 20 * SCORE_UNIT
    ELSE 0

(* The grade term as documented: 30 for an exact match, else 15 for the
   sentinel 0, else 0 *)
DocumentedGradeTerm(u, p) ==
    IF \E k \in 1..Len(p.grades) : p.grades[k] = u.grade
    THEN 30 * SCORE_UNIT
    ELSE IF \E k \in 1..Len(p.grades) : p.grades[k] = 0
    THEN 15 * SCORE_UNIT
    ELSE 0

(* The distinct categories found in both lists *)
Matches(u, p) ==
    {c \in ToSet(CATEGORIES) : In(c, u.interests) /\ In(c, p.categories)}

(* C7: in both variants the department term is 40 when the user's department
   is listed by the program, whatever else is listed; 20 when it is not and the
   sentinel is listed; 0 otherwise *)
C7_DepartmentTerm ==
    last \in {"hybrid_explain", "rule_explain"}
        => explanation.department = DocumentedDepartmentTerm(user, programs[1])

(* A program that lists both the user's department and the sentinel *)
C7_Witness ==
    /\ last = "hybrid_explain"
    /\ user.department # UNRESTRICTED
    /\ In(user.department, programs[1].departments)
    /\ In(UNRESTRICTED, programs[1].departments)
    /\ explanation.department = 40 * SCORE_UNIT

(* C8: in both variants the grade term is 30 when user.grade is listed by the
   program; 15 when it is not and 0 is listed; 0 otherwise, for every user
   grade of 0..7 *)
C8_GradeTerm ==
    last \in {"hybrid_explain", "rule_explain"}
        => /\ user.grade \in 0..7
           /\ explanation.grade = DocumentedGradeTerm(user, programs[1])

(* A program that lists both the grade of the user, a graduate student, and
   the sentinel 0 *)
C8_Witness ==
    /\ last = "rule_explain"
    /\ user.grade = 7
    /\ In(7, programs[1].grades)
    /\ In(0, programs[1].grades)
    /\ explanation.grade = 30 * SCORE_UNIT

(* C9: the hybrid interest term is min(5 * m, 30) for m the number of distinct
   categories found in both lists, so it never exceeds 30 and grows with m *)
C9_InterestTerm ==
    last = "hybrid_explain"
        => LET m == Cardinality(Matches(user, programs[1]))
           IN  /\ explanation.interests = Min(5 * m, 30) * SCORE_UNIT
               /\ explanation.interests <= 30 * SCORE_UNIT

(* Seven distinct matches, one of them listed twice on both sides: the term is
   the cap *)
C9_Witness ==
    /\ last = "hybrid_explain"
    /\ Cardinality(Matches(user, programs[1])) = 7
    /\ Len(user.interests) > 7
    /\ Len(programs[1].categories) > 7
    /\ explanation.interests = 30 * SCORE_UNIT

(* The user and the programs A and B of the documented scenario *)
ScenarioUser ==
    /\ user.department = "cs"
    /\ user.grade = 2
    /\ user.interests = <<"contest", "career">>

ScenarioA ==
    /\ ScenarioUser
    /\ programs[1].departments = <<"cs">>
    /\ programs[1].grades = <<2>>
    /\ programs[1].categories = <<"contest">>

ScenarioB ==
    /\ ScenarioUser
    /\ programs[1].departments = <<UNRESTRICTED>>
    /\ programs[1].grades = <<0>>
    /\ programs[1].categories = <<>>

(* C10: calculate_score returns the plain sum of the department, grade and
   interest terms, plus the deadline bonus in the rule-only variant and never
   in the hybrid one; an empty list on either side leaves its term at 0; the
   scenario gives 40 + 30 + one match for A and 20 + 15 + 0 = 35 for B *)
C10_ScoreIsSum ==
    LET u == user
        p == programs[1]
        bonus == Rule_deadline_bonus(p, today).score
    IN  /\ last = "hybrid_score" =>
              /\ score_ret.score = Hybrid_calculate_department_score(u, p).score
                                      + Hybrid_calculate_grade_score(u, p).score
                                      + Hybrid_calculate_interest_score(u, p).score
              /\ p.departments = <<>> =>
                    score_ret.score = Hybrid_calculate_grade_score(u, p).score
                                        + Hybrid_calculate_interest_score(u, p).score
              /\ p.grades = <<>> =>
                    score_ret.score = Hybrid_calculate_department_score(u, p).score
                                        + Hybrid_calculate_interest_score(u, p).score
              /\ (u.interests = <<>> \/ p.categories = <<>>) =>
                    score_ret.score = Hybrid_calculate_department_score(u, p).score
                                        + Hybrid_calculate_grade_score(u, p).score
              /\ ScenarioA => score_ret.score = (40 + 30 + 5) * SCORE_UNIT
              /\ ScenarioB => score_ret.score = 35 * SCORE_UNIT
        /\ last = "rule_score" =>
              /\ score_ret.score = Rule_calculate_department_score(u, p).score
                                      + Rule_calculate_grade_score(u, p).score
                                      + Rule_calculate_interest_score(u, p).score
                                      + bonus
              /\ p.departments = <<>> =>
                    score_ret.score = Rule_calculate_grade_score(u, p).score
                                        + Rule_calculate_interest_score(u, p).score
                                        + bonus
              /\ p.grades = <<>> =>
                    score_ret.score = Rule_calculate_department_score(u, p).score
                                        + Rule_calculate_interest_score(u, p).score
                                        + bonus
              /\ (u.interests = <<>> \/ p.categories = <<>>) =>
                    score_ret.score = Rule_calculate_department_score(u, p).score
                                        + Rule_calculate_grade_score(u, p).score
                                        + bonus
              /\ ScenarioA => score_ret.score = (40 + 30 + 10) * SCORE_UNIT + bonus
              /\ ScenarioB => score_ret.score = 35 * SCORE_UNIT + bonus

(* The rule-only score of scenario B for a program whose deadline is near: 35
   and the bonus of 10 *)
C10_Witness ==
    /\ last = "rule_score"
    /\ ScenarioB
    /\ is_deadline_near(programs[1], today)
    /\ score_ret.score = 45 * SCORE_UNIT

-----------------------------------------------------------------------------
(* Further properties of the recommend specification Spec *)

(* The list the hybrid call scored: the caller's list, without the programs
   closed on the day of the call unless include_closed *)
Scored ==
    IF include_closed THEN programs
    ELSE SelectSeq(programs, LAMBDA p : DerivedOpen(p, today))

(* C11: every hybrid result's score is 0.6 of calculate_score(user, program)
   plus 0.4 of the entry of the text-score batch at the program's own index in
   the scored list, and the two weights sum to 1 *)
C11_WeightedTotal ==
    /\ WEIGHT_RULE_BASED + WEIGHT_TF_IDF = WEIGHT_SCALE
    /\ result.by = "hybrid"
          => /\ Len(tfidf_scores) = Len(Scored)
             /\ \A i \in 1..Len(result.value) :
                   \E k \in 1..Len(Scored) :
                      /\ Scored[k] = result.value[i].program
                      /\ result.value[i].score =
                            (6 * Hybrid_calculate_score(user, Scored[k]).score
                               + 4 * tfidf_scores[k]) \div 10

(* Two results whose text scores differ, the second of the scored list being
   returned *)
C11_Witness ==
    /\ result.by = "hybrid"
    /\ Len(tfidf_scores) = 2
    /\ tfidf_scores[1] # tfidf_scores[2]
    /\ tfidf_scores[2] > 0
    /\ Len(result.value) = 2

(* C12: a hybrid recommend whose list is empty, or empty once the closed
   programs are dropped, returns the empty list without running
   calculate_tfidf_score, and leaves the vectorizer as it was constructed *)
C12_EmptyShortCircuit ==
    (last = "hybrid_recommend" /\ Scored = <<>>)
        => /\ result.value = <<>>
           /\ tfidf_calls = 0
           /\ tfidf_scores = <<>>
           /\ vectorizer = Unfitted

(* A call on a list of programs with text and a score above min_score, all of
   them closed on the day of the call *)
C12_Witness ==
    /\ last = "hybrid_recommend"
    /\ programs # <<>>
    /\ Scored = <<>>
    /\ result.value = <<>>
    /\ \A k \in 1..Len(programs) :
          Combine(Hybrid_calculate_score(user, programs[k]).score, 0) >= min_score

-----------------------------------------------------------------------------
(* The specification of the dates: one program with every combination of a
   start date and an end date around today, on which the date methods of
   Program and the deadline bonus of the scorers are called *)

(* The latest end date: one day further than the deadline bonus reaches from
   the last day *)
LastDate == MaxDay + DEADLINE_DAYS + 1

DateOptions(last_date) == {None} \cup {Some(d) : d \in 0..last_date}

DateUser == User("cs", 2, <<"contest", "career">>, <<"AI">>)

InitDates ==
    /\ today \in 0..MaxDay
    /\ user = DateUser
    /\ \E s \in DateOptions(MaxDay + 1), e \in DateOptions(LastDate) :
          programs = <<Program(1, ScoreText, <<"contest">>, <<"cs">>, <<2>>,
                               [app_start_date |-> s, app_end_date |-> e])>>
    /\ limit = 0
    /\ include_closed = FALSE
    /\ min_score = 0
    /\ vectorizer = Unfitted
    /\ last = "none"
    /\ result = NoResult
    /\ tfidf_scores = <<>>
    /\ tfidf_calls = 0
    /\ explanation = NoExplanation
    /\ score_ret = NoScore
    /\ bool_ret = FALSE
    /\ memo = NoMemo
    /\ requests = NoRequests
    /\ stored = NoRows
    /\ dedup = NoDedup

(* program.is_application_open() *)
IsApplicationOpen ==
    /\ last = "none"
    /\ bool_ret' = is_application_open(programs[1], today)
    /\ last' = "is_application_open"
    /\ UNCHANGED <<stored, dedup, requests, today, user, programs, limit, include_closed, min_score,
                   vectorizer, result, tfidf_scores, tfidf_calls, explanation,
                   score_ret, memo>>

(* program.is_deadline_near() *)
IsDeadlineNear ==
    /\ last = "none"
    /\ bool_ret' = is_deadline_near(programs[1], today)
    /\ last' = "is_deadline_near"
    /\ UNCHANGED <<stored, dedup, requests, today, user, programs, limit, include_closed, min_score,
                   vectorizer, result, tfidf_scores, tfidf_calls, explanation,
                   score_ret, memo>>

NextDates ==
    \/ IsApplicationOpen
    \/ IsDeadlineNear
    \/ HybridScore(1)
    \/ RuleScore(1)
    \/ RuleExplainProgram(1)

SpecDates == InitDates /\ [][NextDates]_vars

(* C13: is_application_open() is true exactly when the start date is absent
   or not after today and the end date is absent or not before today; so a
   program without dates is open and a program whose end date is today is
   open *)
C13_OpenIffInsideWindow ==
    last = "is_application_open"
        => LET p == programs[1]
           IN  /\ bool_ret <=>
                     /\ (p.app_start_date = None \/ p.app_start_date[1] <= today)
                     /\ (p.app_end_date = None \/ p.app_end_date[1] >= today)
               /\ (p.app_start_date = None /\ p.app_end_date = None) => bool_ret
               /\ (p.app_start_date = None /\ p.app_end_date = Some(today))
                     => bool_ret

(* A program that started earlier and ends today, found open *)
C13_Witness ==
    /\ last = "is_application_open"
    /\ programs[1].app_start_date # None
    /\ programs[1].app_start_date[1] < today
    /\ programs[1].app_end_date = Some(today)
    /\ bool_ret

-----------------------------------------------------------------------------
(* Further properties of the specification of repeated calls SpecCalls *)

(* The list the last call handed to calculate_tfidf_score *)
TextScored == IF last = "tfidf_score" THEN programs ELSE Scored

(* The query and the program's text have a term in common *)
SharesTerm(u, p) ==
    Terms(create_user_query(u)) \cap Terms(create_program_text(p)) # {}

(* Neither the query nor any text of the list has a term *)
Degenerate(u, ps) ==
    /\ Terms(create_user_query(u)) = {}
    /\ \A k \in 1..Len(ps) : Terms(create_program_text(ps[k])) = {}

(* C14: calculate_tfidf_score returns one score per program, each within
   0..100 and 0 exactly when the program's own text shares no term with the
   query; the empty list for the empty list; and on a corpus without terms a 0
   for every program, with which recommend returns every candidate, up to
   limit, at 0.6 of its rule score *)
C14_TextScores ==
    last \in {"tfidf_score", "hybrid_recommend"}
        => LET ps == TextScored
           IN  /\ Len(tfidf_scores) = Len(ps)
               /\ \A k \in 1..Len(ps) :
                     /\ 0 <= tfidf_scores[k]
                     /\ tfidf_scores[k] <= 100 * SCORE_UNIT
                     /\ tfidf_scores[k] = 0 <=> ~SharesTerm(user, ps[k])
               /\ ps = <<>> => tfidf_scores = <<>>
               /\ (ps # <<>> /\ Degenerate(user, ps)) =>
                     /\ \A k \in 1..Len(ps) : tfidf_scores[k] = 0
                     /\ last = "hybrid_recommend" =>
                           /\ Len(result.value) = Min(limit, Len(ps))
                           /\ \A i \in 1..Len(result.value) :
                                 result.value[i].score =
                                    (6 * Hybrid_calculate_score(
                                            user, result.value[i].program).score)
                                       \div 10

(* A recommend call on a corpus without terms, made after the vectorizer was
   fitted by an earlier call, that returned its candidate *)
C14_Witness ==
    /\ last = "hybrid_recommend"
    /\ Scored # <<>>
    /\ Degenerate(user, Scored)
    /\ vectorizer.fitted
    /\ tfidf_scores = <<0>>
    /\ Len(result.value) = 1

(***************************************************************************)
(* SpecBoundary: construction of the User model at the API boundary.  The  *)
(* request payload carries any integer as grade; pydantic validates the    *)
(* field constraints when the model is built, and the recommender takes a  *)
(* built User, so the scorer runs only with a model that was built.        *)
(***************************************************************************)

USER_GRADE_MIN == 1
USER_GRADE_MAX == 7

User_accepts_from_zero(u) == u.grade \in 0..USER_GRADE_MAX

(* grade: int = Field(..., ge=1, le=7) *)
User_accepts(u) == u.grade >= USER_GRADE_MIN /\ u.grade <= USER_GRADE_MAX

RawGrades == (USER_GRADE_MIN - 2)..(USER_GRADE_MAX + 2)

BoundaryGradeLists == {<<>>, <<0>>, <<1>>, <<7>>, <<1, 7>>}

InitBoundary ==
    /\ today = 0
    /\ \E d \in {"cs", "ee"}, g \in RawGrades :
          user = User(d, g, <<"contest">>, <<"AI">>)
    /\ \E gs \in BoundaryGradeLists :
          programs = <<Program(1, ScoreText, <<"contest">>, <<"cs">>, gs,
                               [app_start_date |-> None, app_end_date |-> None])>>
    /\ limit = 1
    /\ include_closed = TRUE
    /\ min_score = 0
    /\ vectorizer = Unfitted
    /\ last = "none"
    /\ result = NoResult
    /\ tfidf_scores = <<>>
    /\ tfidf_calls = 0
    /\ explanation = NoExplanation
    /\ score_ret = NoScore
    /\ bool_ret = FALSE
    /\ memo = NoMemo
    /\ requests = NoRequests
    /\ stored = NoRows
    /\ dedup = NoDedup

(* building User from the payload: the field constraints decide whether the
   model exists *)
ConstructUser ==
    /\ last = "none"
    /\ bool_ret' = User_accepts(user)
    /\ last' = "construct_user"
    /\ UNCHANGED <<stored, dedup, requests, today, user, programs, limit, include_closed, min_score,
                   vectorizer, result, tfidf_scores, tfidf_calls, explanation,
                   score_ret, memo>>

(* recommender.recommend(user, ...): its argument is a constructed User *)
BoundaryRecommend ==
    /\ last = "construct_user"
    /\ bool_ret
    /\ \E batch \in {Hybrid_batch(vectorizer, user, programs, include_closed, today)} :
          /\ vectorizer' = batch.vectorizer
          /\ tfidf_scores' = batch.tfidf_scores
          /\ tfidf_calls' = batch.tfidf_calls
          /\ result' = [by |-> "hybrid",
                         value |-> Hybrid_rank(user, batch, limit, min_score)]
    /\ last' = "hybrid_recommend"
    /\ UNCHANGED <<stored, dedup, requests, bool_ret, today, user, programs, limit, include_closed,
                   min_score, explanation, score_ret, memo>>

(* recommender.calculate_score(user, program) with a constructed User *)
BoundaryScore ==
    /\ last = "construct_user"
    /\ bool_ret
    /\ score_ret' = Hybrid_calculate_score(user, programs[1])
    /\ last' = "hybrid_score"
    /\ UNCHANGED <<stored, dedup, requests, bool_ret, today, user, programs, limit, include_closed,
                   min_score, vectorizer, result, tfidf_scores, tfidf_calls,
                   explanation, memo>>

NextBoundary == ConstructUser \/ BoundaryRecommend \/ BoundaryScore

SpecBoundary == InitBoundary /\ [][NextBoundary]_vars

Constructed == last # "none"

ScorerRan == last \in {"hybrid_recommend", "hybrid_score"}

(* C15 as stated: a profile is accepted exactly when its grade is one of   *)
(* 0..7, and the scorer runs only for accepted profiles.                   *)
C15_AcceptsZeroToSeven ==
    /\ Constructed => (bool_ret <=> user.grade \in 0..7)
    /\ ScorerRan => user.grade \in 0..7

(* C15 amended: a profile is accepted exactly when its grade is one of     *)
(* 1..7 (grade 0 is rejected like any other value outside 1..7), and the   *)
(* scorer runs only for accepted profiles.                                 *)
C15_AcceptsOneToSeven ==
    /\ Constructed => (bool_ret <=> user.grade \in 1..7)
    /\ ScorerRan => user.grade \in 1..7

C15_Witness ==
    /\ last = "construct_user"
    /\ user.grade = 0
    /\ ~bool_ret

-----------------------------------------------------------------------------
(* C16: recommend and explain_score leave their inputs unchanged: over every
   call, and so over every sequence of calls, the caller's programs list (its
   length, its order, every field of every Program) and every field of the
   user profile are what they were before the call, also when
   include_closed = FALSE filters programs out. *)
C16_InputsUnchanged == [][programs' = programs /\ user' = user]_vars

(* A hybrid recommend call that filtered out a closed program and kept an open
   one, followed by an explain_score call *)
C16_Witness ==
    /\ last = "hybrid_explain"
    /\ ~include_closed
    /\ Len(tfidf_scores) >= 1
    /\ Len(tfidf_scores) < Len(programs)

-----------------------------------------------------------------------------
(***************************************************************************)
(* SpecRequests: two requests served by api/routes.py in one process.  All *)
(* handlers share the module-level recommender and its vectorizer.  The    *)
(* handlers are coroutines without a single await, so the event loop runs  *)
(* each one from its first statement to its return before it starts the    *)
(* next.  The explain handler is modelled in two steps, around the point   *)
(* inside fit_transform where the fitted state has been written and is     *)
(* read back, so that the scheduling is what keeps the steps together.     *)
(***************************************************************************)

(* def fetch_programs_from_db(departments, grade, categories, include_closed) *)
FETCH_PARAMETERS == {"departments", "grade", "categories", "include_closed"}

(* the keywords recommend_programs passes to fetch_programs_from_db *)
RECOMMEND_KEYWORDS == {"department", "grade", "categories", "include_closed"}

(* the keywords explain_score passes to fetch_programs_from_db *)
EXPLAIN_KEYWORDS == {"include_closed"}

(* A call with a keyword the function does not declare raises TypeError *)
Fetch_accepts(keywords) == keywords \subseteq FETCH_PARAMETERS

NoResponse == [status |-> 0, body |-> <<>>]

(* except Exception: raise HTTPException(status_code=500, ...) *)
Response500 == [status |-> 500, body |-> <<>>]

(* raise HTTPException(status_code=404, ...) *)
Response404 == [status |-> 404, body |-> <<>>]

Response200(body) == [status |-> 200, body |-> body]

(* next((p for p in programs if p.id == program_id), None) *)
Lookup(db, id) ==
    LET S == {i \in 1..Len(db) : db[i].id = id}
    IN  IF S = {} THEN None ELSE Some(db[CHOOSE i \in S : \A j \in S : i <= j])

(* all_texts of calculate_tfidf_score(user, [program]) *)
Explain_texts(u, p) == <<create_user_query(u), create_program_text(p)>>

May_run_in_threads(reqs, r) == TRUE

(* async def handlers without await: a handler starts only when no other
   handler is between its first statement and its return *)
May_run(reqs, r) == \A q \in DOMAIN reqs : q # r => reqs[q].pc # "fitted"

(* ORDER BY p.id DESC *)
RECURSIVE OrderByIdDesc(_)
OrderByIdDesc(rows) ==
    IF rows = <<>> THEN <<>>
    ELSE LET top == CHOOSE i \in 1..Len(rows) :
                       \A j \in 1..Len(rows) : rows[j].id <= rows[i].id
         IN  <<rows[top]>>
             \o OrderByIdDesc([k \in 1..(Len(rows) - 1) |->
                                  IF k < top THEN rows[k] ELSE rows[k + 1]])

(* The WHERE clause of fetch_programs_from_db for one stored program: the
   deadline test unless include_closed, and each of the department, grade and
   category tests when its filter is given *)
Fetch_where(p, departments, grade, categories, ic, day) ==
    /\ ic \/ (p.app_end_date # None /\ p.app_end_date[1] >= day)
    /\ departments = <<>>
          \/ (\E k \in 1..Len(p.departments) : In(p.departments[k], departments))
          \/ In(UNRESTRICTED, p.departments)
    /\ grade = None \/ In(grade[1], p.grades) \/ In(0, p.grades)
    /\ categories = <<>>
          \/ \E k \in 1..Len(p.categories) : In(p.categories[k], categories)

(* fetch_programs_from_db over the stored programs db on the given day *)
fetch_programs_from_db(db, departments, grade, categories, ic, day) ==
    OrderByIdDesc(SelectSeq(db, LAMBDA p :
                      Fetch_where(p, departments, grade, categories, ic, day)))

(* recommend_programs as one run to completion: the response and the
   vectorizer it leaves behind *)
Recommend_response(vec, req, db, day) ==
    IF ~Fetch_accepts(RECOMMEND_KEYWORDS)
    THEN [vectorizer |-> vec, response |-> Response500]
    ELSE LET fetched == fetch_programs_from_db(db, <<req.user.department>>,
                                               Some(req.user.grade),
                                               req.user.interests,
                                               req.include_closed, day)
             batch == Hybrid_batch(vec, req.user, fetched, req.include_closed, day)
         IN  [vectorizer |-> batch.vectorizer,
              response |-> Response200(Hybrid_rank(req.user, batch, req.limit,
                                                   req.min_score))]

(* explain_score (the route) as one run to completion *)
Explain_response(vec, req, db) ==
    IF ~Fetch_accepts(EXPLAIN_KEYWORDS)
    THEN [vectorizer |-> vec, response |-> Response500]
    ELSE LET found == Lookup(db, req.program_id)
         IN  IF found = None
             THEN [vectorizer |-> vec, response |-> Response404]
             ELSE LET e == Hybrid_explain_score(vec, req.user, found[1])
                  IN  [vectorizer |-> e.vectorizer, response |-> Response200(e.value)]

(* The response of a request served by a process that serves nothing else *)
AloneResponse(req, db, day) ==
    IF req.kind = "recommend"
    THEN Recommend_response(Unfitted, req, db, day).response
    ELSE Explain_response(Unfitted, req, db).response

RequestUsers == {CallUser, User("ee", 2, <<"lecture">>, <<"ml">>)}

RequestInputs ==
    {[kind |-> "recommend", user |-> u, program_id |-> 0, limit |-> 1,
      include_closed |-> TRUE, min_score |-> 0] : u \in RequestUsers}
    \cup {[kind |-> "explain", user |-> u, program_id |-> i, limit |-> 0,
           include_closed |-> FALSE, min_score |-> 0] :
             u \in RequestUsers, i \in 1..3}

Request(x) == x @@ [pc |-> "pending", response |-> NoResponse]

InitRequests ==
    /\ today = 0
    /\ user = CallUser
    /\ programs = <<CallProgramA, CallProgramB>>
    /\ requests \in [1..2 -> {Request(x) : x \in RequestInputs}]
    /\ limit = 0
    /\ include_closed = FALSE
    /\ min_score = 0
    /\ vectorizer = Unfitted
    /\ last = "none"
    /\ result = NoResult
    /\ tfidf_scores = <<>>
    /\ tfidf_calls = 0
    /\ explanation = NoExplanation
    /\ score_ret = NoScore
    /\ bool_ret = FALSE
    /\ memo = NoMemo
    /\ stored = NoRows
    /\ dedup = NoDedup

(* POST /recommend *)
ServeRecommend(r) ==
    /\ requests[r].kind = "recommend"
    /\ requests[r].pc = "pending"
    /\ May_run(requests, r)
    /\ \E out \in {Recommend_response(vectorizer, requests[r], programs, today)} :
          /\ vectorizer' = out.vectorizer
          /\ requests' = [requests EXCEPT ![r].pc = "done",
                                          ![r].response = out.response]
    /\ last' = "serve_recommend"
    /\ UNCHANGED <<stored, dedup, today, user, programs, limit, include_closed, min_score, result,
                   tfidf_scores, tfidf_calls, explanation, score_ret, bool_ret, memo>>

(* POST /explain up to the fitted state written by fit_transform; a handler
   that answers without fitting returns here *)
ServeExplainFit(r) ==
    /\ requests[r].kind = "explain"
    /\ requests[r].pc = "pending"
    /\ May_run(requests, r)
    /\ LET found == Lookup(programs, requests[r].program_id)
       IN  IF ~Fetch_accepts(EXPLAIN_KEYWORDS) \/ found = None
              \/ FitRaises(Explain_texts(requests[r].user, found[1]))
           THEN \E out \in {Explain_response(vectorizer, requests[r], programs)} :
                   /\ vectorizer' = out.vectorizer
                   /\ requests' = [requests EXCEPT ![r].pc = "done",
                                                   ![r].response = out.response]
           ELSE /\ vectorizer' = Fit(Explain_texts(requests[r].user, found[1]))
                /\ requests' = [requests EXCEPT ![r].pc = "fitted"]
    /\ last' = "serve_explain_fit"
    /\ UNCHANGED <<stored, dedup, today, user, programs, limit, include_closed, min_score, result,
                   tfidf_scores, tfidf_calls, explanation, score_ret, bool_ret, memo>>

(* POST /explain from the read of the fitted state to the response *)
ServeExplainTransform(r) ==
    /\ requests[r].pc = "fitted"
    /\ LET p == Lookup(programs, requests[r].program_id)[1]
           scores == TransformScores(vectorizer, Explain_texts(requests[r].user, p))
           body == Hybrid_explain_value(requests[r].user, p, scores[1])
       IN  requests' = [requests EXCEPT ![r].pc = "done",
                                        ![r].response = Response200(body)]
    /\ last' = "serve_explain_transform"
    /\ UNCHANGED <<stored, dedup, today, user, programs, limit, include_closed, min_score,
                   vectorizer, result, tfidf_scores, tfidf_calls, explanation,
                   score_ret, bool_ret, memo>>

NextRequests ==
    \E r \in 1..2 :
       \/ ServeRecommend(r)
       \/ ServeExplainFit(r)
       \/ ServeExplainTransform(r)

SpecRequests == InitRequests /\ [][NextRequests]_vars

(* C17: for every interleaving of two requests on the shared recommender,   *)
(* the response of each served request is the response it would get from a  *)
(* process that serves nothing else, and the fitted state a handler reads   *)
(* back is the state it fitted itself.                                       *)
C17_RequestsIndependent ==
    \A r \in DOMAIN requests :
       /\ requests[r].pc = "done" =>
             requests[r].response = AloneResponse(requests[r], programs, today)
       /\ requests[r].pc = "fitted" =>
             vectorizer = Fit(Explain_texts(requests[r].user,
                                            Lookup(programs, requests[r].program_id)[1]))

(* Two explain requests with different inputs were both answered with 200, the
   later one by a recommender whose vectorizer the earlier one had fitted *)
C17_Witness ==
    /\ DOMAIN requests = 1..2
    /\ \A r \in 1..2 : requests[r].pc = "done" /\ requests[r].response.status = 200
    /\ requests[1].user # requests[2].user
    /\ requests[1].program_id # requests[2].program_id

-----------------------------------------------------------------------------
(* The end date lies 0 to 7 days ahead of today, both ends included *)
EndsWithinSevenDays(p, day) ==
    /\ p.app_end_date # None
    /\ p.app_end_date[1] - day >= 0
    /\ p.app_end_date[1] - day <= 7

(* The three rule terms of the simple variant, without any bonus *)
RuleTerms(u, p) ==
    Rule_calculate_department_score(u, p).score
    + Rule_calculate_grade_score(u, p).score
    + Rule_calculate_interest_score(u, p).score

(* The three rule terms of the hybrid variant *)
HybridTerms(u, p) ==
    Hybrid_calculate_department_score(u, p).score
    + Hybrid_calculate_grade_score(u, p).score
    + Hybrid_calculate_interest_score(u, p).score

(* C18: the simple variant adds the deadline bonus of 10 to a program's     *)
(* score exactly when the program has an end date d with 0 <= d - today <= 7 *)
(* (today and the 7th day included, passed deadlines excluded), in          *)
(* calculate_score and in explain_score alike; the hybrid variant's rule    *)
(* score never includes the bonus.                                          *)
C18_DeadlineBonus ==
    LET p == programs[1]
        bonus == IF EndsWithinSevenDays(p, today) THEN 10 * SCORE_UNIT ELSE 0
    IN  /\ last = "rule_score" => score_ret.score = RuleTerms(user, p) + bonus
        /\ last = "rule_explain" =>
              /\ explanation.deadline = bonus
              /\ explanation.total_score = RuleTerms(user, p) + bonus
        /\ last = "hybrid_score" => score_ret.score = HybridTerms(user, p)

(* calculate_score of the simple variant added the bonus on the 7th day before
   the end date *)
C18_Witness ==
    /\ last = "rule_score"
    /\ programs[1].app_end_date = Some(today + 7)
    /\ score_ret.score = RuleTerms(user, programs[1]) + 10 * SCORE_UNIT

-----------------------------------------------------------------------------
(* C19: in RuleBasedRecommender the interest term is 10 points per matching
   category with a maximum of 30 points: for every user and program the
   interest term explain_score reports, and calculate_score adds, never
   exceeds 30. *)
C19_RuleInterestAtMost30 ==
    /\ last = "rule_explain" => explanation.interests <= 30 * SCORE_UNIT
    /\ last = "rule_score" =>
          score_ret.score
          - Rule_calculate_department_score(user, programs[1]).score
          - Rule_calculate_grade_score(user, programs[1]).score
          - Rule_deadline_bonus(programs[1], today).score <= 30 * SCORE_UNIT

-----------------------------------------------------------------------------
(* C20 as stated: RuleBasedRecommender.recommend excludes every program whose
   score is equal to or below min_score, so every returned score is strictly
   greater than min_score. *)
C20_RuleScoresAboveMinScore ==
    result.by = "rule"
        => \A i \in 1..Len(result.value) : result.value[i].score > min_score

(* C20 amended: RuleBasedRecommender.recommend excludes exactly the programs
   whose score is below min_score: every returned score is at least min_score,
   and when the limit did not cut the list every candidate whose score is
   min_score or more, the score min_score itself included, is returned. *)
C20_RuleScoresAtLeastMinScore ==
    result.by = "rule"
        => LET cands == Candidates
           IN  /\ \A i \in 1..Len(result.value) : result.value[i].score >= min_score
               /\ \A k \in 1..Len(cands) :
                     cands[k].total < min_score => ~Returned(cands[k].program)
               /\ Len(result.value) < limit
                     => \A k \in 1..Len(cands) :
                           cands[k].total >= min_score => Returned(cands[k].program)

(* A rule-only result whose score equals min_score *)
C20_Witness ==
    /\ result.by = "rule"
    /\ \E i \in 1..Len(result.value) : result.value[i].score = min_score

-----------------------------------------------------------------------------
(* C21: every RecommendationResult.score produced by either recommender, the
   hybrid total or the rule-only score with its interest term and deadline
   bonus, lies within 0..100. *)
C21_ScoresWithin0To100 ==
    \A i \in 1..Len(result.value) :
       /\ result.value[i].score >= 0
       /\ result.value[i].score <= 100 * SCORE_UNIT

-----------------------------------------------------------------------------
(* Other values of User.interest_fields, a category name among them *)
OtherInterestFields == {<<>>, <<"ml">>, <<"contest">>, <<"AI", "lecture">>}

(* C22: interest_fields feeds only the text path: every user that differs
   from the scored one in interest_fields only gets the same rule score and
   the same reasons from calculate_score for the same program, while the user
   query of the text path does change with the field. *)
C22_InterestFieldsTextOnly ==
    last = "hybrid_score"
        => \A f \in OtherInterestFields :
              LET other == [user EXCEPT !.interest_fields = f]
              IN  /\ Hybrid_calculate_score(other, programs[1]) = score_ret
                  /\ f # user.interest_fields
                        => create_user_query(other) # create_user_query(user)

(* calculate_score gave a positive score with an interest reason for a program
   with a category that the user does not list as an interest and that another
   user names as an interest field *)
C22_Witness ==
    /\ last = "hybrid_score"
    /\ score_ret.score > 0
    /\ \E i \in 1..Len(score_ret.reasons) : score_ret.reasons[i].kind = "interest_match"
    /\ In("lecture", programs[1].categories)
    /\ ~In("lecture", user.interests)

-----------------------------------------------------------------------------
(* C23 as stated: when the user's department is empty, the department term is
   0 for every program. *)
C23_EmptyDepartmentNoTerm ==
    (last \in {"hybrid_explain", "rule_explain"} /\ user.department = "")
        => explanation.department = 0

(* C23 amended: when the user's department is the empty string, the
   department term of a program whose departments are all named is 20 if the
   program lists the sentinel and 0 otherwise: the scorers never test whether
   the user has a department. *)
C23_EmptyDepartmentSentinelTerm ==
    (/\ last \in {"hybrid_explain", "rule_explain"}
     /\ user.department = ""
     /\ ~In("", programs[1].departments))
        => explanation.department =
              IF In(UNRESTRICTED, programs[1].departments) THEN 20 * SCORE_UNIT
              ELSE 0

(* A user without a department got 20 from a program open to every
   department *)
C23_Witness ==
    /\ last = "hybrid_explain"
    /\ user.department = ""
    /\ In(UNRESTRICTED, programs[1].departments)
    /\ explanation.department = 20 * SCORE_UNIT

-----------------------------------------------------------------------------
(* recommend over every stored program, with the arguments of the request *)
RecommendOverAll(req, db, day) ==
    LET all == fetch_programs_from_db(db, <<>>, None, <<>>, TRUE, day)
        batch == Hybrid_batch(Unfitted, req.user, all, req.include_closed, day)
    IN  Hybrid_rank(req.user, batch, req.limit, req.min_score)

(* C24: the storage pre-filter is only an optimization: the ranked list the
   /recommend path answers with equals the ranked list recommend produces over
   all stored programs with the same limit, include_closed and min_score. *)
C24_PrefilterOnlyOptimization ==
    \A r \in DOMAIN requests :
       (requests[r].kind = "recommend" /\ requests[r].pc = "done")
           => requests[r].response =
                 Response200(RecommendOverAll(requests[r], programs, today))

-----------------------------------------------------------------------------
(* C25: every result the rule-only recommend returns carries, besides the
   program and its score, the reasons calculate_score produced for that
   program. *)
C25_RuleResultsCarryReasons ==
    result.by = "rule"
        => \A i \in 1..Len(result.value) :
              /\ "reasons" \in DOMAIN result.value[i]
              /\ result.value[i].reasons =
                    Rule_calculate_score(user, result.value[i].program, today).reasons

-----------------------------------------------------------------------------
(***************************************************************************)
(* SpecCrawler: portal_search_crawler.py writing to the program table.  A  *)
(* row of stored is one program with the rows of program_category,         *)
(* program_department and program_grade that belong to it, in insertion    *)
(* order.  A department text is the sequence of its pieces between commas  *)
(* and slashes; a grade text is the sequence of the grade words in it.     *)
(***************************************************************************)

MaxRows == 2

(* parse_departments: the named pieces, or the sentinel when there is none *)
parse_departments(dept_text) ==
    LET named == SelectSeq(dept_text, LAMBDA d : d # "" /\ d # UNRESTRICTED)
    IN  IF dept_text = <<>> \/ named = <<>> THEN <<UNRESTRICTED>> ELSE named

(* A grade word: "3학년" is Year(3), and the words for alumni, graduate
   students and "everyone" *)
Year(n) == [word |-> "year", n |-> n]

Alumni == [word |-> "alumni", n |-> 0]

Graduate == [word |-> "graduate", n |-> 0]

Everyone == [word |-> "everyone", n |-> 0]

(* parse_grades: the years 1..5 in text order, then 6 and 7 when their word
   occurs; the code 0 alone when "everyone" occurs or nothing was found *)
parse_grades(grade_text) ==
    LET years == SelectSeq(grade_text, LAMBDA g : g.word = "year" /\ g.n >= 1 /\ g.n <= 5)
        grades == [i \in 1..Len(years) |-> years[i].n]
                  \o (IF In(Alumni, grade_text) THEN <<6>> ELSE <<>>)
                  \o (IF In(Graduate, grade_text) THEN <<7>> ELSE <<>>)
    IN  IF grade_text = <<>> \/ In(Everyone, grade_text) \/ grades = <<>>
        THEN <<0>>
        ELSE grades

(* A write that stores the parsed lists as they are: C26 depends on the
   removal of repeated values *)
Dedupe_keeps_all(values) == values

(* list(dict.fromkeys(values)): the first occurrence of each value, in order *)
RECURSIVE Dedupe(_)
Dedupe(values) ==
    IF values = <<>> THEN <<>>
    ELSE LET front == Dedupe(SubSeq(values, 1, Len(values) - 1))
             final == values[Len(values)]
         IN  IF In(final, front) THEN front ELSE Append(front, final)

(* A link check that never finds a row: C30 depends on the check *)
Existing_never(rows, link) == None

(* SELECT id FROM program WHERE link = %s LIMIT 1: the position of a row with
   the link, or None *)
Existing(rows, link) ==
    LET S == {i \in 1..Len(rows) : rows[i].link = link}
    IN  IF S = {} THEN None ELSE Some(CHOOSE i \in S : \A j \in S : i <= j)

(* The orders in which a for loop may visit the elements of a set *)
Orderings(S) ==
    {seq \in [1..Cardinality(S) -> S] :
        \A i, j \in 1..Cardinality(S) : i # j => seq[i] # seq[j]}

(* The stored procedure sp_create_program: one new program row with the next
   id and one category, department and grade row per entry of the lists *)
sp_create_program(rows, program_data) ==
    LET ids == {rows[i].id : i \in 1..Len(rows)}
        program_id == IF ids = {} THEN 1
                      ELSE 1 + CHOOSE m \in ids : \A k \in ids : k <= m
    IN  Append(rows, [id |-> program_id] @@ program_data)

(* insert_program_to_db with a working connection: every outcome the call
   can have, as the table it leaves and the string it returns *)
insert_program_to_db(rows, data) ==
    LET existing == IF data.link # <<>> THEN Existing(rows, data.link) ELSE None
    IN  IF existing # None
        THEN LET at == existing[1]
                 existing_categories == ToSet(rows[at].categories)
                 new_categories == ToSet(data.categories)
                 categories_to_add == new_categories \ existing_categories
             IN  IF categories_to_add # {}
                 THEN {[rows |-> [rows EXCEPT ![at].categories = @ \o added],
                        outcome |-> "merged"] : added \in Orderings(categories_to_add)}
                 ELSE {[rows |-> rows, outcome |-> "duplicate"]}
        ELSE LET program_data ==
                     [title |-> data.title,
                      link |-> data.link,
                      content |-> data.content,
                      categories |-> Dedupe(data.categories),
                      departments |-> Dedupe(parse_departments(data.target_department)),
                      grades |-> Dedupe(parse_grades(data.target_grade)),
                      app_start_date |-> data.posted_date,
                      app_end_date |-> None]
             IN  {[rows |-> sp_create_program(rows, program_data),
                   outcome |-> "success"]}

(* A link is the sequence of its parts; the empty text has none *)
CrawlLinks ==
    {<<>>, <<"www.uos.ac.kr/korNotice", "1">>, <<"www.uos.ac.kr/korNotice", "2">>}

CrawlCategories ==
    {<<"contest">>, <<"lecture", "contest", "lecture">>, <<>>}

CrawlTargets ==
    {[target_department |-> <<>>, target_grade |-> <<>>],
     [target_department |-> <<"cs", "", "cs", UNRESTRICTED>>,
      target_grade |-> <<Year(1), Year(9), Year(1), Alumni>>]}

(* The dict crawl_notice_detail hands to insert_program_to_db *)
CrawlData ==
    {[title |-> <<"ai">>, content |-> <<>>, posted_date |-> None,
      link |-> l, categories |-> c,
      target_department |-> t.target_department,
      target_grade |-> t.target_grade] :
        l \in CrawlLinks, c \in CrawlCategories, t \in CrawlTargets}

InitCrawler ==
    /\ today = 0
    /\ user = CallUser
    /\ programs = <<>>
    /\ limit = 0
    /\ include_closed = FALSE
    /\ min_score = 0
    /\ vectorizer = Unfitted
    /\ last = "none"
    /\ result = NoResult
    /\ tfidf_scores = <<>>
    /\ tfidf_calls = 0
    /\ explanation = NoExplanation
    /\ score_ret = NoScore
    /\ bool_ret = FALSE
    /\ memo = NoMemo
    /\ requests = NoRequests
    /\ stored = NoRows
    /\ dedup = NoDedup

(* insert_program_to_db(data) *)
InsertProgram ==
    /\ \E data \in CrawlData :
          \E out \in insert_program_to_db(stored, data) :
             /\ Len(out.rows) <= MaxRows
             /\ stored' = out.rows
             /\ last' = out.outcome
    /\ UNCHANGED <<today, user, programs, limit, include_closed, min_score, vectorizer,
                   result, tfidf_scores, tfidf_calls, explanation, score_ret, bool_ret,
                   memo, requests, dedup>>

(* insert_program_to_db(data) without a connection, or with a database error:
   the transaction is rolled back *)
InsertProgramError ==
    /\ last' = "error"
    /\ UNCHANGED <<today, user, programs, limit, include_closed, min_score, vectorizer,
                   result, tfidf_scores, tfidf_calls, explanation, score_ret, bool_ret,
                   memo, requests, stored, dedup>>

(* One iteration of the loop of main over a notice: the link check before the
   crawl, that skips a stored link, then the insert *)
MainNotice ==
    /\ \E data \in CrawlData :
          IF Existing(stored, data.link) # None
          THEN /\ stored' = stored
               /\ last' = "skipped"
          ELSE \E out \in insert_program_to_db(stored, data) :
                  /\ Len(out.rows) <= MaxRows
                  /\ stored' = out.rows
                  /\ last' = out.outcome
    /\ UNCHANGED <<today, user, programs, limit, include_closed, min_score, vectorizer,
                   result, tfidf_scores, tfidf_calls, explanation, score_ret, bool_ret,
                   memo, requests, dedup>>

NextCrawler == InsertProgram \/ InsertProgramError \/ MainNotice

SpecCrawler == InitCrawler /\ [][NextCrawler]_vars

NoRepeats(values) == \A i, j \in 1..Len(values) : values[i] = values[j] => i = j

(* C26: after any sequence of insert_program_to_db calls, new inserts and
   category merges alike, with repeated values in the input, the categories,
   departments and grades stored for each program hold no value twice. *)
C26_StoredListsWithoutRepeats ==
    \A i \in 1..Len(stored) :
       /\ NoRepeats(stored[i].categories)
       /\ NoRepeats(stored[i].departments)
       /\ NoRepeats(stored[i].grades)

(* A row written from repeated departments and grades, whose categories a
   later call with a repeated category was merged into *)
C26_Witness ==
    /\ last = "merged"
    /\ \E i \in 1..Len(stored) :
          /\ stored[i].departments = <<"cs">>
          /\ stored[i].grades = <<1, 6>>
          /\ stored[i].categories = <<"contest", "lecture">>

Links(rows) == {rows[i].link : i \in 1..Len(rows)}

OneRowPerLink(rows) ==
    \A i, j \in 1..Len(rows) :
       rows[i].link # <<>> /\ rows[i].link = rows[j].link => i = j

(* The rows before, with nothing but categories not yet stored added *)
OnlyNewCategoriesAdded(before, after) ==
    /\ Len(after) = Len(before)
    /\ \A i \in 1..Len(before) :
          \E added \in Orderings(ToSet(after[i].categories) \ ToSet(before[i].categories)) :
             after[i] = [before[i] EXCEPT !.categories = @ \o added]

(* C30: after any sequence of sequential insert_program_to_db calls the table
   holds at most one program row per non-empty link; a call whose link is
   already stored never creates a row: it only adds categories not yet stored
   ('merged') or changes nothing ('duplicate'). *)
C30_OneRowPerLink ==
    [][/\ OneRowPerLink(stored')
       /\ Len(stored') > Len(stored) =>
             /\ stored' [Len(stored')].link \notin (Links(stored) \ {<<>>})
             /\ SubSeq(stored', 1, Len(stored)) = stored
             /\ last' = "success"
       /\ last' = "merged" => OnlyNewCategoriesAdded(stored, stored') /\ stored' # stored
       /\ last' \in {"duplicate", "skipped", "error"} => stored' = stored]_vars

(* Two stored links, one of them offered again with a category it lacked *)
C30_Witness ==
    /\ last = "merged"
    /\ Len(stored) = 2
    /\ stored[1].link = <<"www.uos.ac.kr/korNotice", "1">>
    /\ stored[2].link = <<"www.uos.ac.kr/korNotice", "2">>
    /\ \E i \in 1..2 : Len(stored[i].categories) = 2

-----------------------------------------------------------------------------
(***************************************************************************)
(* SpecDedup: scripts/deduplicate.py over the program table.  A title is   *)
(* the sequence of its characters.                                         *)
(***************************************************************************)

MaxTable == 4

SIMILARITY_THRESHOLD == 80

UpperCase == [A |-> "a", B |-> "b"]

(* str.lower *)
lower(text) ==
    [i \in 1..Len(text) |-> IF text[i] \in DOMAIN UpperCase THEN UpperCase[text[i]] ELSE text[i]]

(* re.sub(r'\s+', ' ', title): a run of whitespace becomes one space *)
RECURSIVE CollapseWhitespace(_)
CollapseWhitespace(text) ==
    IF Len(text) < 2 THEN text
    ELSE LET front == CollapseWhitespace(SubSeq(text, 1, Len(text) - 1))
             final == text[Len(text)]
         IN  IF final = " " /\ front[Len(front)] = " " THEN front ELSE Append(front, final)

(* str.strip *)
strip(text) ==
    LET inked == {i \in 1..Len(text) : text[i] # " "}
    IN  IF inked = {} THEN <<>>
        ELSE SubSeq(text, CHOOSE i \in inked : \A j \in inked : i <= j,
                          CHOOSE i \in inked : \A j \in inked : j <= i)

(* re.sub(r'\[.*?\]', '', title), and the same for parentheses: every
   shortest stretch from an opening to the next closing character goes *)
RECURSIVE RemoveEnclosed(_, _, _)
RemoveEnclosed(text, opening, closing) ==
    LET opens == {i \in 1..Len(text) :
                    text[i] = opening /\ \E j \in (i + 1)..Len(text) : text[j] = closing}
    IN  IF opens = {} THEN text
        ELSE LET i == CHOOSE o \in opens : \A k \in opens : o <= k
                 closes == {j \in (i + 1)..Len(text) : text[j] = closing}
                 j == CHOOSE c \in closes : \A k \in closes : c <= k
             IN  SubSeq(text, 1, i - 1)
                 \o RemoveEnclosed(SubSeq(text, j + 1, Len(text)), opening, closing)

(* The characters of the model's titles that [^\w\s가-힣] matches *)
SpecialCharacters == {"[", "]", "(", ")", "!"}

normalize_title_strict(title) == lower(strip(CollapseWhitespace(title)))

normalize_title_loose(title) ==
    LET unbracketed == RemoveEnclosed(title, "[", "]")
        unparenthesised == RemoveEnclosed(unbracketed, "(", ")")
        plain == SelectSeq(unparenthesised, LAMBDA c : c \notin SpecialCharacters)
    IN  lower(strip(CollapseWhitespace(plain)))

is_exact_match(title1, title2) ==
    normalize_title_strict(title1) = normalize_title_strict(title2)

(* difflib: the total size of SequenceMatcher.get_matching_blocks, found by
   find_longest_match (the longest block, earliest in a, then earliest in b)
   and the same search left and right of it *)
RECURSIVE MatchingSize(_, _)
MatchingSize(a, b) ==
    LET blocks == {blk \in (1..Len(a)) \X (1..Len(b)) \X (1..Len(a)) :
                     /\ blk[1] + blk[3] - 1 <= Len(a)
                     /\ blk[2] + blk[3] - 1 <= Len(b)
                     /\ SubSeq(a, blk[1], blk[1] + blk[3] - 1)
                          = SubSeq(b, blk[2], blk[2] + blk[3] - 1)}
    IN  IF blocks = {} THEN 0
        ELSE LET best == CHOOSE x \in blocks : \A y \in blocks :
                            \/ x[3] > y[3]
                            \/ x[3] = y[3] /\ x[1] < y[1]
                            \/ x[3] = y[3] /\ x[1] = y[1] /\ x[2] <= y[2]
             IN  best[3]
                 + MatchingSize(SubSeq(a, 1, best[1] - 1), SubSeq(b, 1, best[2] - 1))
                 + MatchingSize(SubSeq(a, best[1] + best[3], Len(a)),
                                SubSeq(b, best[2] + best[3], Len(b)))

(* calculate_similarity(title1, title2) >= SIMILARITY_THRESHOLD, with
   ratio() = 2.0 * matches / length, and 1.0 when both texts are empty *)
SimilarEnough(title1, title2) ==
    LET norm1 == normalize_title_loose(title1)
        norm2 == normalize_title_loose(title2)
        length == Len(norm1) + Len(norm2)
    IN  IF length = 0 THEN TRUE
        ELSE 2 * MatchingSize(norm1, norm2) * 100 >= SIMILARITY_THRESHOLD * length

get_source_from_link(link) ==
    IF link = <<>> THEN "unknown"
    ELSE IF In("uostory.uos.ac.kr", link) THEN "uostory"
    ELSE IF In("www.uos.ac.kr/korNotice", link) THEN "portal"
    ELSE "unknown"

score_program(program) ==
    LET length(n, cap) == IF n < cap THEN n ELSE cap
    IN  (IF program.title # <<>> THEN length(Len(program.title), 50) ELSE 0)
        + (IF program.content # <<>> THEN length(Len(program.content) \div 10, 200) ELSE 0)
        + (IF program.app_start_date # None THEN 10 ELSE 0)
        + (IF program.app_end_date # None THEN 10 ELSE 0)
        + (IF get_source_from_link(program.link) = "uostory" THEN 20 ELSE 0)

Ids(group) == {group[i].id : i \in 1..Len(group)}

(* A search that marks only the seed of a group as processed: C29 depends on
   the members being marked too *)
Processed_seed_only(processed, group) == processed \cup {group[1].id}

(* processed.add(prog1['id']) and processed.add(prog2['id']) for every member *)
Processed(processed, group) == processed \cup Ids(group)

(* The test of find_duplicate_groups on a seed and a later program *)
is_duplicate(prog1, prog2) ==
    IF get_source_from_link(prog1.link) = get_source_from_link(prog2.link)
    THEN is_exact_match(prog1.title, prog2.title)
    ELSE SimilarEnough(prog1.title, prog2.title)

(* The outer loop of find_duplicate_groups from position i *)
RECURSIVE FindGroupsFrom(_, _, _)
FindGroupsFrom(progs, i, processed) ==
    IF i > Len(progs) THEN <<>>
    ELSE IF progs[i].id \in processed THEN FindGroupsFrom(progs, i + 1, processed)
    ELSE LET prog1 == progs[i]
             group == <<prog1>>
                      \o SelectSeq(SubSeq(progs, i + 1, Len(progs)),
                                   LAMBDA prog2 : /\ prog2.id \notin processed
                                                  /\ is_duplicate(prog1, prog2))
         IN  (IF Len(group) > 1 THEN <<group>> ELSE <<>>)
             \o FindGroupsFrom(progs, i + 1, Processed(processed, group))

find_duplicate_groups(progs) == FindGroupsFrom(progs, 1, {})

(* scored.sort(key=score, reverse=True): a stable sort, highest score first *)
RECURSIVE SortedByScore(_)
SortedByScore(group) ==
    IF group = <<>> THEN <<>>
    ELSE LET first == CHOOSE i \in 1..Len(group) :
                         /\ \A j \in 1..Len(group) :
                               score_program(group[j]) <= score_program(group[i])
                         /\ \A j \in 1..(i - 1) :
                               score_program(group[j]) < score_program(group[i])
         IN  <<group[first]>>
             \o SortedByScore(SubSeq(group, 1, first - 1)
                              \o SubSeq(group, first + 1, Len(group)))

select_best_program(group) ==
    LET scored == SortedByScore(group)
    IN  [best_program |-> scored[1], duplicates |-> SubSeq(scored, 2, Len(scored))]

(* A delete that does not look at dry_run: C28 depends on the early return *)
delete_program_for_real(rows, program_id, dry_run, fails) ==
    IF fails THEN [rows |-> rows, ok |-> FALSE]
    ELSE [rows |-> SelectSeq(rows, LAMBDA r : r.id # program_id), ok |-> TRUE]

(* delete_program(program_id, dry_run): the table it leaves and its return
   value; fails says the connection or the DELETE failed *)
delete_program(rows, program_id, dry_run, fails) ==
    IF dry_run THEN [rows |-> rows, ok |-> TRUE]
    ELSE IF fails THEN [rows |-> rows, ok |-> FALSE]
    ELSE [rows |-> SelectSeq(rows, LAMBDA r : r.id # program_id), ok |-> TRUE]

(* The inner loop of process_duplicates over the duplicates of one group *)
RECURSIVE DeleteAll(_, _, _, _)
DeleteAll(rows, duplicates, dry_run, failing) ==
    IF duplicates = <<>> THEN [rows |-> rows, deleted |-> {}, failed |-> {}]
    ELSE LET dup == duplicates[1]
             done == delete_program(rows, dup.id, dry_run, dup.id \in failing)
             rest == DeleteAll(done.rows, SubSeq(duplicates, 2, Len(duplicates)),
                               dry_run, failing)
         IN  [rows |-> rest.rows,
              deleted |-> (IF done.ok THEN {dup.id} ELSE {}) \cup rest.deleted,
              failed |-> (IF done.ok THEN {} ELSE {dup.id}) \cup rest.failed]

(* The programs the table of a run is made of: one from UOStory, three from
   the portal, one without a link *)
DedupPrograms ==
    {[title |-> <<"a", "b", "c", "d", "e">>, link |-> <<"uostory.uos.ac.kr", "1">>,
      content |-> <<>>, app_start_date |-> None, app_end_date |-> None],
     [title |-> <<" ", "A", "b", "c", "d", "e">>, link |-> <<"uostory.uos.ac.kr", "2">>,
      content |-> <<>>, app_start_date |-> None, app_end_date |-> None],
     [title |-> <<"[", "x", "]", "a", "b", "c", "d", "e">>,
      link |-> <<"www.uos.ac.kr/korNotice", "1">>,
      content |-> <<>>, app_start_date |-> Some(1), app_end_date |-> Some(2)],
     [title |-> <<"a", "b", "c", "d", "f">>, link |-> <<"www.uos.ac.kr/korNotice", "2">>,
      content |-> <<>>, app_start_date |-> None, app_end_date |-> None],
     [title |-> <<"f", "f">>, link |-> <<>>,
      content |-> <<>>, app_start_date |-> None, app_end_date |-> None]}

(* The program table: ids ascending from 1, as AUTO_INCREMENT gives them *)
DedupTables ==
    UNION {{[i \in 1..n |-> [id |-> i, categories |-> <<>>, departments |-> <<>>,
                             grades |-> <<>>] @@ picked[i]] :
              picked \in [1..n -> DedupPrograms]} : n \in 0..MaxTable}

(* The record of a run: where it is, DRY_RUN of the module, the dry_run that
   process_duplicates was called with, the table fetch_all_programs read,
   the groups found, the next group, and what was kept, deleted, failed *)
DedupRun(pc, DRY, dry_run, fetched, groups) ==
    [pc |-> pc, DRY_RUN |-> DRY, dry_run |-> dry_run, fetched |-> fetched,
     groups |-> groups, idx |-> 1, kept |-> {}, deleted |-> {}, failed |-> {}]

InitDedup ==
    /\ today = 0
    /\ user = CallUser
    /\ programs = <<>>
    /\ limit = 0
    /\ include_closed = FALSE
    /\ min_score = 0
    /\ vectorizer = Unfitted
    /\ last = "none"
    /\ result = NoResult
    /\ tfidf_scores = <<>>
    /\ tfidf_calls = 0
    /\ explanation = NoExplanation
    /\ score_ret = NoScore
    /\ bool_ret = FALSE
    /\ memo = NoMemo
    /\ requests = NoRequests
    /\ stored \in DedupTables
    /\ dedup = NoDedup

(* main of deduplicate.py up to the report: the confirmation when DRY_RUN is
   off, fetch_all_programs, find_duplicate_groups.  With DRY_RUN on, or
   without groups, main ends here; else process_duplicates follows. *)
DedupMain ==
    /\ dedup.pc = "none"
    /\ \E DRY \in BOOLEAN, response \in {"yes", "no"}, connected \in BOOLEAN :
          IF ~DRY /\ response # "yes"
          THEN dedup' = DedupRun("cancelled", DRY, DRY, <<>>, <<>>)
          ELSE \E fetched \in {IF connected THEN stored ELSE <<>>} :
               \E groups \in {find_duplicate_groups(fetched)} :
                  dedup' = DedupRun(IF DRY \/ groups = <<>> THEN "done" ELSE "processing",
                                    DRY, DRY, fetched, groups)
    /\ last' = "deduplicate_main"
    /\ UNCHANGED <<today, user, programs, limit, include_closed, min_score, vectorizer,
                   result, tfidf_scores, tfidf_calls, explanation, score_ret, bool_ret,
                   memo, requests, stored>>

(* process_duplicates(find_duplicate_groups(fetch_all_programs())) called by
   hand, with its default dry_run=True *)
DedupProcessDefault ==
    /\ dedup.pc = "none"
    /\ \E groups \in {find_duplicate_groups(stored)} :
          dedup' = DedupRun(IF groups = <<>> THEN "done" ELSE "processing",
                            FALSE, TRUE, stored, groups)
    /\ last' = "process_duplicates"
    /\ UNCHANGED <<today, user, programs, limit, include_closed, min_score, vectorizer,
                   result, tfidf_scores, tfidf_calls, explanation, score_ret, bool_ret,
                   memo, requests, stored>>

(* One round of the loop of process_duplicates: the best program of the
   group is kept, delete_program is called on each of the others *)
DedupProcessGroup ==
    /\ dedup.pc = "processing"
    /\ \E picked \in {select_best_program(dedup.groups[dedup.idx])} :
       \E failing \in SUBSET Ids(picked.duplicates) :
       \E done \in {DeleteAll(stored, picked.duplicates, dedup.dry_run, failing)} :
          /\ dedup.dry_run => failing = {}
          /\ stored' = done.rows
          /\ dedup' = [dedup EXCEPT
                          !.pc = IF dedup.idx = Len(dedup.groups) THEN "done" ELSE "processing",
                          !.idx = @ + 1,
                          !.kept = @ \cup {picked.best_program.id},
                          !.deleted = @ \cup done.deleted,
                          !.failed = @ \cup done.failed]
    /\ last' = "process_duplicates"
    /\ UNCHANGED <<today, user, programs, limit, include_closed, min_score, vectorizer,
                   result, tfidf_scores, tfidf_calls, explanation, score_ret, bool_ret,
                   memo, requests>>

NextDedup == DedupMain \/ DedupProcessDefault \/ DedupProcessGroup

SpecDedup == InitDedup /\ [][NextDedup]_vars

Found == dedup.pc # "none" /\ dedup.pc # "cancelled"

(* C27: in find_duplicate_groups two programs of the same source are in one
   group only if their strictly normalized titles are exactly equal; 80%
   similarity makes duplicates only across different sources. *)
C27_SameSourceOnlyExactMatch ==
    Found =>
       \A g \in 1..Len(dedup.groups) :
          \A i, j \in 1..Len(dedup.groups[g]) :
             LET prog1 == dedup.groups[g][i]
                 prog2 == dedup.groups[g][j]
             IN  get_source_from_link(prog1.link) = get_source_from_link(prog2.link)
                    => is_exact_match(prog1.title, prog2.title)

(* C28: dry-run mode changes nothing: with DRY_RUN = True, or with
   delete_program called with dry_run=True, no step of main or of
   process_duplicates deletes a row. *)
C28_DryRunDeletesNothing ==
    [][(dedup'.pc # "none" /\ (dedup'.DRY_RUN \/ dedup'.dry_run)) => stored' = stored]_vars

(* A dry run of process_duplicates that reported a deletion, every program
   still stored *)
C28_Witness ==
    /\ dedup.pc = "done"
    /\ dedup.dry_run
    /\ dedup.deleted # {}
    /\ dedup.deleted \subseteq Ids(stored)

StillStored(group) == Ids(group) \cap Ids(stored)

Grouped == UNION {Ids(dedup.groups[g]) : g \in 1..Len(dedup.groups)}

(* C29: the groups find_duplicate_groups returns are pairwise disjoint and
   have two members or more each; when every deletion succeeds, exactly one
   program of each group survives, the one select_best_program ranks first,
   no kept program is deleted for another group, and no program outside the
   groups is deleted. *)
C29_GroupsDisjointOneSurvivor ==
    Found =>
       /\ \A g \in 1..Len(dedup.groups) :
             /\ Len(dedup.groups[g]) >= 2
             /\ Cardinality(Ids(dedup.groups[g])) = Len(dedup.groups[g])
             /\ \A h \in 1..Len(dedup.groups) :
                   g # h => Ids(dedup.groups[g]) \cap Ids(dedup.groups[h]) = {}
       /\ (dedup.pc = "done" /\ ~dedup.dry_run /\ dedup.failed = {}) =>
             /\ \A g \in 1..Len(dedup.groups) :
                   StillStored(dedup.groups[g])
                      = {select_best_program(dedup.groups[g]).best_program.id}
             /\ dedup.kept \cap dedup.deleted = {}
             /\ Ids(dedup.fetched) \ Grouped \subseteq Ids(stored)

(* A real run over two groups, every deletion done *)
C29_Witness ==
    /\ dedup.pc = "done"
    /\ ~dedup.dry_run
    /\ dedup.failed = {}
    /\ Len(dedup.groups) = 2
    /\ Len(stored) = 2

====
